---- MODULE Spec2Model ----
(***************************************************************************)
(* Model of the Lexware quotation tool (src/server.js, first program of    *)
(* the file: lines 1-1116).                                                *)
(*                                                                         *)
(*  - the Excel -> quotation payload builder                               *)
(*    parseExcelAndBuildQuotationPayload with its price helpers,           *)
(*  - the /api/test-excel and /api/create-offer handlers,                  *)
(*  - the outbound request wrapper lexwareRequest (retry on HTTP 429).     *)
(*                                                                         *)
(* Conventions                                                             *)
(*  - JS numbers are fixed-point integers in hundredths (6.9 is 690,       *)
(*    19 % is 1900); a nullable number is a set: {} is null, {n} is n.     *)
(*  - A spreadsheet cell is the string sheet_to_json({defval: ''}) yields; *)
(*    "" is the empty cell.                                                *)
(*  - An absent object key (undefined) is an absent record field; a null   *)
(*    object is the record Null.                                           *)
(***************************************************************************)
EXTENDS Integers, Sequences, FiniteSets, TLC

VARIABLES
    \* ---- parseExcelAndBuildQuotationPayload (one call) ----
    pc,                  \* position in the builder: "start", "meta", "rows", "finish", "done"
    allowPriceOverride,  \* option passed by the caller
    nRows,               \* posRows.length
    taxType,             \* String(angebot.taxType).trim()
    customerName,        \* String(kunde.name).trim()
    sheets,              \* the required sheets the workbook holds
    i,                   \* loop index of the row loop (rows read so far)
    errors, warnings, autoNamedLineItems, byType, lineItems,
    result,              \* the returned { ok, payload, summary } or NoResult
    rowLog,              \* history: for each row read, was it blank / did it have a problem
    now,                 \* the wall clock the builder reads (days)
    voucherDate,         \* new Date().toISOString()
    expirationDate,      \* new Date(Date.now() + 30 days).toISOString()
    address,             \* the address object built from the Kunde sheet
    \* ---- evaluation of one Positionen row (pure) ----
    row, art, outcome,
    \* ---- one HTTP request to /api/test-excel or /api/create-offer ----
    rpc,                 \* position in the handler
    endpoint,            \* "test-excel" or "create-offer"
    parsed,              \* what the builder returned to the handler
    attempt,             \* lexwareRequest: loop counter of the creation call
    posts,               \* creation POSTs sent to the remote API so far
    lastStatus,          \* status of the last remote response to the creation call
    response,            \* the JSON body sent back, or NoResult
    \* ---- the builder called more than once on one input ----
    input,               \* the workbook (with its catalog responses) and the flag
    calls,               \* what each call so far returned
    \* ---- a price taken from net to gross and back ----
    givenAmount,         \* the amount given (hundredths)
    givenRate,           \* the tax rate given (hundredths of a percent)
    upNet,               \* unit price built from the amount as net
    upBack,              \* unit price built from upNet's gross amount as gross
    tieUp,               \* binary floating point: is the double computed for a value
                         \* exactly halfway between two cents at least that half
    \* ---- the token bucket, the minimum interval and the callers of lexwareRequest ----
    tokens,              \* TokenBucket.tokens, in units of 1/PerSec token
    sinceRefill,         \* Date.now() - TokenBucket.lastRefill in ticks, up to FillTicks
    queue,               \* TokenBucket.queue: the callers whose acquire() is unresolved
    timer,               \* TokenBucket.timer: "none", "armed" (set, not yet due), "due"
    lastGranted,         \* the callers the last drain resolved, in the order of resolve()
    budget,              \* capacity plus refill minus grants, kept apart from tokens
    sinceLastCall,       \* Date.now() - lastCallTs in ticks, up to MinInterval
    sincePrevSend,       \* ticks since the last HTTP request went out, up to MinInterval
    callPc,              \* per caller: position in lexwareRequest
    callAttempt,         \* per caller: the loop counter `attempt`
    callWake,            \* per caller: ticks left of the sleep in enforceMinInterval
    callLog,             \* per caller: the statuses received in this call, in order
    callGrants,          \* per caller: the acquire() calls resolved in this call
    callRet,             \* per caller: the status of the returned result, 0 if none
    \* ---- create-offer requests and the inFlight map ----
    inFlight,            \* the Map inFlight: key -> the promise stored (its request's id)
    promise,             \* per request: the state of the promise the request created
    settledAs,           \* per request: the result its promise was fulfilled with, or
                         \* "UNHANDLED_EXCEPTION" when it was rejected, "" before
    creationCalls,       \* per request: calls of lexwareRequest POST by its promise
    handlerPc,           \* per request: position in the handler
    requestKey,          \* per request: hashRequest of its triple, "" before it arrives
    awaited,             \* per request: the promise its handler awaits, 0 if none
    found,               \* per request: what inFlight held for its key on arrival
    replied,             \* per request: the status of the JSON body sent, "" before
    deleteTimers,        \* the timers `() => inFlight.delete(key)`: <<key, "armed" | "due">>
    removed,             \* the requests whose map entry a timer has deleted
    \* ---- getArticleById and the article cache ----
    articleCache,        \* articleCache.byId: id -> [age, data], age = Date.now() - _ts
                         \* in ticks, up to TtlTicks
    lookPc,              \* per call of getArticleById: "idle", "waiting", "done"
    lookId,              \* per call: the articleId
    lookResult,          \* per call: the data returned, "null" for null, "" before
    lookStatus,          \* per call: the status lexwareRequest returned, 0 if none
    lookFresh,           \* per call: the data of the entry younger than the TTL that
                         \* the cache held when the call started, "" if none
    lookRemote,          \* per call: has the call sent a remote GET
    served               \* the pairs <<id, data>> the remote API answered with a 2xx

builderVars == <<pc, allowPriceOverride, nRows, taxType, customerName, sheets, i,
                 errors, warnings, autoNamedLineItems, byType, lineItems, result, rowLog,
                 now, voucherDate, expirationDate, address>>
rowVars == <<row, art, outcome>>
reqVars == <<rpc, endpoint, parsed, attempt, posts, lastStatus, response>>
twiceVars == <<input, calls>>
priceVars == <<givenAmount, givenRate, upNet, upBack, tieUp>>
limiterVars == <<tokens, sinceRefill, queue, timer, lastGranted, budget, sinceLastCall,
                 sincePrevSend, callPc, callAttempt, callWake, callLog,
                 callGrants, callRet>>
flightVars == <<inFlight, promise, settledAs, creationCalls, handlerPc, requestKey, awaited,
                found, replied, deleteTimers, removed>>
cacheVars == <<articleCache, lookPc, lookId, lookResult, lookStatus, lookFresh, lookRemote,
               served>>
serviceVars == <<limiterVars, flightVars, cacheVars>>
vars == <<builderVars, rowVars, reqVars, twiceVars, priceVars, serviceVars>>

(***************************************************************************)
(* Bounds of the model                                                     *)
(***************************************************************************)
MaxRows == 2        \* rows of the Positionen sheet in the builder runs
MaxClock == 1       \* the wall clock runs from 0 to MaxClock
MaxCalls == 2       \* calls of the builder on one input
MaxAmount == 1200   \* amounts from 0.00 to 12.00, in hundredths
MinInterval == 6    \* the configured MIN_INTERVAL_MS (600 ms), in ticks of DrainTimerMs
TtlTicks == 2       \* articleCache.ttlMs, in ticks of the clock of the cache

Null == [null |-> TRUE]
NoResult == [none |-> TRUE]

(***************************************************************************)
(* Constants of the program                                                *)
(***************************************************************************)
DefaultTaxRate == 1900     \* 19 (percent), in hundredths
maxRetries == 5
ExpirationDays == 30       \* expirationDate is 30 days after the clock reading
capacity == 2              \* new TokenBucket({ capacity: 2, refillPerSec: 2 })
refillPerSec == 2
DrainTimerMs == 100        \* setTimeout(() => this._drain(), 100): one tick of the clock

\* Ticks per second; tokens are counted in units of 1/PerSec token, so that one
\* tick refills refillPerSec units.
PerSec == 1000 \div DrainTimerMs

\* The ticks after which the refill of an empty bucket reaches the capacity.
FillTicks == (capacity * PerSec) \div refillPerSec

(***************************************************************************)
(* Small helpers of the program                                            *)
(***************************************************************************)
\* Number(v) for the cell strings of the model, in hundredths; {} is NaN.
NumberOfCell(v) ==
    CASE v = "0"    -> {0}
      [] v = "5"    -> {500}
      [] v = "10"   -> {1000}
      [] v = "7"    -> {700}
      [] v = "6,9"  -> {}          \* Number("6,9") is NaN
      [] v = "abc"  -> {}          \* Number("abc") is NaN
      [] OTHER      -> {}

\* numOrNull: '' / null / undefined -> null; a finite Number(v) -> it; else null.
numOrNull(v) == IF v = "" THEN {} ELSE NumberOfCell(v)

\* toLowerTrim: String(v || '').trim().toLowerCase(), on the type cells of the model.
toLowerTrim(v) ==
    CASE v = " Text "   -> "text"
      [] v = "Material" -> "material"
      [] OTHER          -> v

\* Math.round(x) for x = num / den >= 0: the nearest integer, halves up.
RoundDiv(num, den) == (2 * num + den) \div (2 * den)

\* A rounding that cuts the digits after the second decimal.
round2Down(num, den) == num \div den

\* round2(n) = Math.round((Number(n) + Number.EPSILON) * 100) / 100: n rounded
\* to two decimals. Amounts are carried as exact fractions num/den of
\* hundredths until they are rounded. The product or quotient n is a double:
\* when its exact value is halfway between two cents the double may lie below
\* the half (2.5 * 1.19 gives 2.97, not 2.98), so a tie goes up or down with
\* tieUp; every other value is further from the half than the error of a
\* double and rounds to the nearest cent.
round2(num, den) ==
    IF 2 * (num % den) = den /\ ~tieUp THEN num \div den ELSE RoundDiv(num, den)

(***************************************************************************)
(* UnitPrice builder (AUTO)                                                *)
(***************************************************************************)
\* A unit price that carries the given side only.
buildUnitPriceOneSided(net, gross, taxRate) ==
    LET tr == IF taxRate = {} THEN DefaultTaxRate ELSE CHOOSE t \in taxRate : TRUE
    IN  IF net = {} /\ gross = {} THEN Null
        ELSE [currency |-> "EUR",
              netAmount |-> {round2(n, 1) : n \in net},
              grossAmount |-> IF net # {} THEN {} ELSE {round2(g, 1) : g \in gross},
              taxRatePercentage |-> tr]

\* buildUnitPriceFromNetGross({ net, gross, taxRate }): the missing side is
\* derived with the tax rate, both sides are rounded to two decimals, and the
\* object carries both. Null when neither side is given.
buildUnitPriceFromNetGross(net, gross, taxRate) ==
    LET tr == IF taxRate = {} THEN DefaultTaxRate ELSE CHOOSE t \in taxRate : TRUE
        netAmount ==
            IF net # {} THEN {round2(n, 1) : n \in net}
            ELSE {round2(g * 10000, 10000 + tr) : g \in gross}
        grossAmount ==
            IF gross # {} THEN {round2(g, 1) : g \in gross}
            ELSE {round2(n * (10000 + tr), 10000) : n \in net}
    IN  IF netAmount = {} \/ grossAmount = {} THEN Null
        ELSE [currency |-> "EUR",
              netAmount |-> netAmount,
              grossAmount |-> grossAmount,
              taxRatePercentage |-> tr]

\* buildUnitPriceFromExcel({ taxType, amount, taxRate }): the amount is the
\* gross side when taxType is 'gross' and the net side otherwise.
buildUnitPriceFromExcel(tt, amount, taxRate) ==
    LET a == IF amount = {} THEN {0} ELSE amount     \* Number(null) is 0
    IN  IF tt = "gross" THEN buildUnitPriceFromNetGross({}, a, taxRate)
        ELSE buildUnitPriceFromNetGross(a, {}, taxRate)

\* An article without a price priced at zero.
buildUnitPriceFromArticleOrZero(articleObj) ==
    IF articleObj = Null THEN Null
    ELSE IF articleObj.price = Null THEN Null
    ELSE IF articleObj.price.netPrice = {} /\ articleObj.price.grossPrice = {}
    THEN buildUnitPriceFromNetGross({0}, {}, articleObj.price.taxRate)
    ELSE buildUnitPriceFromNetGross(articleObj.price.netPrice,
                                    articleObj.price.grossPrice,
                                    articleObj.price.taxRate)

\* buildUnitPriceFromArticle(articleObj)
buildUnitPriceFromArticle(articleObj) ==
    IF articleObj = Null THEN Null
    ELSE IF articleObj.price = Null THEN Null
    ELSE buildUnitPriceFromNetGross(articleObj.price.netPrice,
                                    articleObj.price.grossPrice,
                                    articleObj.price.taxRate)

(***************************************************************************)
(* Excel -> Quotation Payload: one iteration of the row loop               *)
(***************************************************************************)
\* String(v || '').trim() on the text cells of the model.
Trim(v) == IF v = "  " THEN "" ELSE v

RowError(excelRow, field, message) ==
    [sheet |-> "Positionen", row |-> excelRow, field |-> field, message |-> message]

RowWarning(excelRow, message) ==
    [sheet |-> "Positionen", row |-> excelRow, message |-> message]

\* What one iteration adds: the type it tallies ("" for none), at most one
\* error, at most one line item, and the warnings / auto-name records (the
\* name fallback records its warning before the price is resolved, so a row
\* failing on its price keeps it).
Skipped == [kind |-> "blank", typed |-> "", errors |-> <<>>, items |-> <<>>,
            warnings |-> <<>>, autoNamed |-> <<>>]

\* An error path that reports its error twice.
FailedTwice(typed, e, w, an) == [kind |-> "error", typed |-> typed, errors |-> <<e, e>>,
                                 items |-> <<>>, warnings |-> w, autoNamed |-> an]

Failed(typed, e, w, an) == [kind |-> "error", typed |-> typed, errors |-> <<e>>,
                            items |-> <<>>, warnings |-> w, autoNamed |-> an]

Pushed(typed, item, w, an) == [kind |-> "item", typed |-> typed, errors |-> <<>>,
                               items |-> <<item>>, warnings |-> w, autoNamed |-> an]

\* hasAny: the row has some recognised, truthy field.
hasAny(r) ==
    LET truthy(n) == \E x \in n : x # 0
    IN  \/ toLowerTrim(r.type) # ""
        \/ Trim(r.articleId) # ""
        \/ Trim(r.name) # ""
        \/ Trim(r.description) # ""
        \/ truthy(numOrNull(r.quantity))
        \/ Trim(r.unitName) # ""
        \/ truthy(numOrNull(r.unitPriceAmount))
        \/ truthy(numOrNull(r.taxRatePercentage))
        \/ truthy(numOrNull(r.discountPercent))

\* The row reaches `await getArticleById(articleId)`.
NeedsLookup(r) ==
    /\ hasAny(r)
    /\ toLowerTrim(r.type) \notin {"", "text"}
    /\ \E q \in numOrNull(r.quantity) : q > 0
    /\ Trim(r.unitName) # ""
    /\ Trim(r.articleId) # ""

\* articleId mandatory for service rows only.
ArticleIdMandatoryForServiceOnly(type) == type = "service"

\* An Excel price that is taken whatever the flag says.
canUseExcelPriceWithoutFlag(type, articleId, unitPriceAmount, allow) ==
    /\ unitPriceAmount # {}
    /\ ~(type \in {"material", "service"})

\* An Excel price that is also taken for material rows.
canUseExcelPriceAlsoForMaterial(type, articleId, unitPriceAmount, allow) ==
    /\ unitPriceAmount # {}
    /\ type # "service"
    /\ ~(type \in {"custom", "material"} /\ articleId # "" /\ ~allow)

\* The type for which articleId is mandatory.
ArticleIdMandatory(type) == type \in {"material", "service"}

\* canUseExcelPrice
canUseExcelPrice(type, articleId, unitPriceAmount, allow) ==
    /\ unitPriceAmount # {}
    /\ ~(type \in {"material", "service"})
    /\ ~(type = "custom" /\ articleId # "" /\ allow # TRUE)

\* A text line item that never falls back to the description.
TextItemWithoutDescriptionFallback(name, description, excelRow) ==
    LET txtName == IF name # "" THEN name ELSE "Hinweis " \o ToString(excelRow)
    IN  IF description # ""
        THEN [type |-> "text", name |-> txtName, description |-> description]
        ELSE [type |-> "text", name |-> txtName]

\* The text line item of a type=text row.
TextItem(name, description, excelRow) ==
    LET txtName == IF name # "" THEN name
                   ELSE IF description # "" THEN description
                   ELSE "Hinweis " \o ToString(excelRow)
    IN  IF description # ""
        THEN [type |-> "text", name |-> txtName, description |-> description]
        ELSE [type |-> "text", name |-> txtName]

\* Field checks that forget the unit.
FirstFieldProblemWithoutUnit(type, qty, unitName, articleId) ==
    IF ~(\E q \in qty : q > 0) THEN "qty"
    ELSE IF type \in {"material", "service"} /\ articleId = "" THEN "articleId"
    ELSE ""

\* The order of the field checks of a non-text row: the first failing one is
\* the row's error. "" when the row passes them.
FirstFieldProblem(type, qty, unitName, articleId) ==
    IF ~(\E q \in qty : q > 0) THEN "qty"
    ELSE IF unitName = "" THEN "unitName"
    ELSE IF ArticleIdMandatory(type) /\ articleId = "" THEN "articleId"
    ELSE ""

FieldProblemMessage(field) ==
    CASE field = "qty"       -> "qty muss groesser als 0 sein."
      [] field = "unitName"  -> "unitName ist Pflicht."
      [] field = "articleId" -> "articleId ist Pflicht bei type=material/service."

EmptyRec == [k \in {} |-> TRUE]

\* An object key that is set only when `present` holds.
Opt(present, rec) == IF present THEN rec ELSE EmptyRec

\* A name fallback that never asks the article for its title.
ResolveNameWithoutTitle(name, articleId, articleObj, excelRow) ==
    IF name # "" THEN [name |-> name, autoNamed |-> <<>>, warnings |-> <<>>]
    ELSE LET autoName == IF articleId # "" THEN "Artikel " \o articleId
                         ELSE "Position " \o ToString(excelRow)
         IN  [name |-> autoName,
              autoNamed |-> <<[row |-> excelRow, articleId |-> articleId, name |-> autoName]>>,
              warnings |-> <<RowWarning(excelRow, "Name war leer, automatisch gesetzt: " \o autoName)>>]

\* Name fallback of a non-text row: the final name with the autoNamedLineItems
\* records and warnings it causes.
ResolveName(name, articleId, articleObj, excelRow) ==
    IF name # "" THEN [name |-> name, autoNamed |-> <<>>, warnings |-> <<>>]
    ELSE IF articleId # ""
    THEN LET autoName == IF articleObj # Null /\ articleObj.title # ""
                         THEN articleObj.title
                         ELSE "Artikel " \o articleId
         IN  [name |-> autoName,
              autoNamed |-> <<[row |-> excelRow, articleId |-> articleId, name |-> autoName]>>,
              warnings |-> <<RowWarning(excelRow, "Name war leer, automatisch aus Artikel ergaenzt: " \o autoName)>>]
    ELSE LET posName == "Position " \o ToString(excelRow)
         IN  [name |-> posName,
              autoNamed |-> <<[row |-> excelRow, articleId |-> Null, name |-> posName]>>,
              warnings |-> <<RowWarning(excelRow, "Name war leer, automatisch gesetzt: " \o posName)>>]

\* AUTO unitPrice of a non-text row that passed the field checks: the unit
\* price (Null when it cannot be built), the message of the error in that
\* case, and the warnings of the price source.
ResolvePrice(type, articleId, articleObj, unitPriceAmount, taxRatePercentage, tt, allow, excelRow) ==
    LET rate == IF taxRatePercentage # {} THEN taxRatePercentage ELSE {DefaultTaxRate}
    IN  IF canUseExcelPrice(type, articleId, unitPriceAmount, allow)
        THEN [up |-> buildUnitPriceFromExcel(tt, unitPriceAmount, rate),
              message |-> "unitPrice konnte aus Excel nicht gebaut werden.",
              warnings |-> <<>>]
        ELSE IF articleId # ""
        THEN [up |-> buildUnitPriceFromArticle(articleObj),
              message |-> "unitPrice fehlt/ist unvollstaendig im Artikelstamm (articleId=" \o articleId \o ").",
              warnings |-> IF unitPriceAmount = {} \/ type \in {"material", "service"}
                           THEN <<RowWarning(excelRow, "Preis automatisch aus Artikelstamm gesetzt (articleId=" \o articleId \o ").")>>
                           ELSE <<>>]
        ELSE IF unitPriceAmount = {}
        THEN [up |-> Null,
              message |-> "Preis ist Pflicht, wenn keine articleId gesetzt ist.",
              warnings |-> <<>>]
        ELSE [up |-> buildUnitPriceFromExcel(tt, unitPriceAmount, rate),
              message |-> "unitPrice konnte aus Excel nicht gebaut werden.",
              warnings |-> <<>>]

\* The body of the row loop for row r at spreadsheet row excelRow;
\* articleObj is what getArticleById returned when the row reached the lookup.
EvalRow(r, excelRow, articleObj, tt, allow) ==
    LET type == toLowerTrim(r.type)
        articleId == Trim(r.articleId)
        name == Trim(r.name)
        description == Trim(r.description)
        qty == numOrNull(r.quantity)
        unitName == Trim(r.unitName)
        unitPriceAmount == numOrNull(r.unitPriceAmount)
        taxRatePercentage == numOrNull(r.taxRatePercentage)
        discountPercent == numOrNull(r.discountPercent)
        problem == FirstFieldProblem(type, qty, unitName, articleId)
        nm == ResolveName(name, articleId, articleObj, excelRow)
        pr == ResolvePrice(type, articleId, articleObj, unitPriceAmount,
                           taxRatePercentage, tt, allow, excelRow)
        item == [type |-> type, name |-> nm.name, quantity |-> qty, unitName |-> unitName,
                 unitPrice |-> pr.up]
                @@ Opt(description # "", [description |-> description])
                @@ Opt(articleId # "" /\ type \in {"material", "service"}, [id |-> articleId])
                @@ Opt(discountPercent # {}, [discountPercentage |-> discountPercent])
    IN  IF ~hasAny(r) THEN Skipped
        ELSE IF type = ""
        THEN Failed("", RowError(excelRow, "type", "type ist Pflicht."), <<>>, <<>>)
        ELSE IF type = "text"
        THEN Pushed(type, TextItem(name, description, excelRow), <<>>, <<>>)
        ELSE IF problem # ""
        THEN Failed(type, RowError(excelRow, problem, FieldProblemMessage(problem)), <<>>, <<>>)
        ELSE IF articleId # "" /\ articleObj = Null
        THEN Failed(type, RowError(excelRow, "articleId",
                     "Artikel konnte nicht geladen werden (articleId=" \o articleId \o ")."),
                    <<>>, <<>>)
        ELSE IF pr.up = Null
        THEN Failed(type, RowError(excelRow, "unitPriceAmount", pr.message), nm.warnings, nm.autoNamed)
        ELSE Pushed(type, item, nm.warnings \o pr.warnings, nm.autoNamed)

(***************************************************************************)
(* Inputs of the model                                                     *)
(***************************************************************************)
RequiredSheets == <<"Angebot", "Kunde", "Positionen">>

TaxTypeCells == {"", "net", "gross"}
\* The Kunde sheet: no name, a freeform customer, a customer with a name and
\* a contactId, a customer given by contactId alone.
KundeCells ==
    {[name |-> "", contactId |-> "", city |-> ""],
     [name |-> "Acme GmbH", contactId |-> "", city |-> "Berlin"],
     [name |-> "Acme GmbH", contactId |-> "c-1", city |-> "Berlin"],
     [name |-> "", contactId |-> "c-1", city |-> ""]}

\* The Kunde sheets of the builder runs (a customer given by contactId alone
\* takes the branches of the customer without a name).
LoopKundeCells == {k \in KundeCells : k.name # "" \/ k.contactId = ""}

\* What getArticleById may return for an articleId: null (not found / non-2xx)
\* or the article object of the catalog.
ArticleNet == [title |-> "Shirt",
               price |-> [netPrice |-> {800}, grossPrice |-> {}, taxRate |-> {1900}]]
ArticleGross == [title |-> "",
                 price |-> [netPrice |-> {}, grossPrice |-> {595}, taxRate |-> {1900}]]
ArticleNoPrice == [title |-> "",
                   price |-> [netPrice |-> {}, grossPrice |-> {}, taxRate |-> {}]]
LookupResults == {Null, ArticleNet, ArticleGross, ArticleNoPrice}

\* Rows of the Positionen sheet (cells as sheet_to_json yields them).
AllRows ==
    [type : {"", "text", " Text ", "custom", "material", "Material", "service", "foo"},
     articleId : {"", "a1"},
     name : {"", "  ", "N"},
     description : {"", "D"},
     quantity : {"", "0", "5", "abc"},
     unitName : {"", "Stk"},
     unitPriceAmount : {"", "10", "6,9"},
     taxRatePercentage : {"", "7"},
     discountPercent : {""}]

\* The rows the builder runs of the model read: blank rows, rows without a
\* type, text rows, and custom / material rows with every field check and every
\* price source; fields that are only passed through are fixed (service rows,
\* which take the branches of material rows, are left to the single-row runs).
LoopRows ==
    {r \in AllRows :
        /\ r.type \in {"", "text", "custom", "material"}
        /\ r.name # "  "
        /\ r.taxRatePercentage = ""
        /\ r.unitPriceAmount # "6,9"
        /\ r.type = "" =>
              /\ r.articleId = "" /\ r.description = "" /\ r.unitName = ""
              /\ r.quantity = "" /\ r.unitPriceAmount = ""
        /\ r.type = "text" =>
              /\ r.articleId = "" /\ r.unitName = ""
              /\ <<r.quantity, r.unitPriceAmount>> \in {<<"", "">>, <<"0", "10">>}
        /\ r.type \in {"custom", "material"} =>
              /\ r.description = ""
              /\ r.quantity \in {"0", "5"}}

\* The results of the lookup for a row: one of `results` when the row
\* reaches getArticleById, no lookup (Null, unused) otherwise.
LookupsFor(r, results) == IF NeedsLookup(r) THEN results ELSE {Null}

\* The lookup results of the builder runs.
LoopLookupResults == {Null, ArticleNet, ArticleNoPrice}

(***************************************************************************)
(* parseExcelAndBuildQuotationPayload as a state machine                   *)
(***************************************************************************)
SheetError(name) == [sheet |-> name, message |-> "Sheet " \o name \o " fehlt."]

\* The errors of the sheet presence check, in the order of the code.
MissingSheetErrors(present) ==
    LET missing(k) == IF RequiredSheets[k] \in present THEN <<>>
                      ELSE <<SheetError(RequiredSheets[k])>>
    IN  missing(1) \o missing(2) \o missing(3)

\* A sheet presence check that records the errors and goes on.
NeverReturnsAfterSheetCheck(errs) == FALSE

\* `if (errors.length) return ...` after the sheet presence check.
ReturnsAfterSheetCheck(errs) == errs # <<>>

\* Metadata checks that forget the customer name.
MetaErrorsWithoutName(tt, cn) ==
    IF tt = "" THEN <<[sheet |-> "Angebot", row |-> 2, field |-> "taxType",
                       message |-> "taxType ist Pflicht (z. B. gross oder net)."],
                      [sheet |-> "Angebot", row |-> 2, field |-> "taxConditions",
                       message |-> "taxConditions.taxType ist Pflicht."]>>
    ELSE <<>>

\* The errors of the Angebot / Kunde metadata.
MetaErrors(tt, cn) ==
    (IF tt = "" THEN <<[sheet |-> "Angebot", row |-> 2, field |-> "taxType",
                        message |-> "taxType ist Pflicht (z. B. gross oder net)."]>>
     ELSE <<>>)
    \o (IF cn = "" THEN <<[sheet |-> "Kunde", row |-> 2, field |-> "name",
                           message |-> "Kundenname ist Pflicht."]>>
        ELSE <<>>)
    \o (IF tt = "" THEN <<[sheet |-> "Angebot", row |-> 2, field |-> "taxConditions",
                           message |-> "taxConditions.taxType ist Pflicht."]>>
        ELSE <<>>)

NoLineItemsError == [sheet |-> "Positionen", message |-> "Keine Positionen gefunden."]

\* A tally that only notes that a type occurred.
TallyWithoutIncrement(bt, type) ==
    IF type = "" THEN bt
    ELSE IF type \in DOMAIN bt THEN bt
    ELSE bt @@ (type :> 1)

\* byType[type] = (byType[type] || 0) + 1
Tally(bt, type) ==
    IF type = "" THEN bt
    ELSE IF type \in DOMAIN bt THEN [bt EXCEPT ![type] = @ + 1]
    ELSE bt @@ (type :> 1)

\* lines 450-460: the address object; a key whose value is undefined is not
\* serialized (street, zip, contactPerson, email and phone go the way of city).
Address(kunde) ==
    Opt(Trim(kunde.name) # "", [name |-> Trim(kunde.name)])
    @@ Opt(Trim(kunde.contactId) # "", [contactId |-> Trim(kunde.contactId)])
    @@ Opt(Trim(kunde.city) # "", [city |-> Trim(kunde.city)])
    @@ [countryCode |-> "DE"]

\* A terminal decision that hands out the line items it has, errors or not.
BuildResultPartial(errs, warns, bt, an, items, tt, addr, vDate, eDate, allow) ==
    LET summary == [errors |-> errs, warnings |-> warns, byType |-> bt,
                    autoNamedLineItems |-> an,
                    allowPriceOverrideUsed |-> allow,
                    voucherDate |-> vDate, taxType |-> tt]
    IN  IF items = <<>>
        THEN [ok |-> FALSE, payload |-> Null, summary |-> summary]
        ELSE [ok |-> TRUE,
              payload |-> [voucherDate |-> vDate,
                           expirationDate |-> eDate,
                           address |-> addr,
                           lineItems |-> items,
                           totalPrice |-> [currency |-> "EUR"],
                           taxConditions |-> IF tt # "" THEN [taxType |-> tt] ELSE Null,
                           shippingConditions |-> [shippingType |-> "none"]],
              summary |-> summary]

\* The terminal decision: what the builder returns after the row loop.
BuildResult(errs, warns, bt, an, items, tt, addr, vDate, eDate, allow) ==
    LET summary == [errors |-> errs, warnings |-> warns, byType |-> bt,
                    autoNamedLineItems |-> an,
                    allowPriceOverrideUsed |-> allow,
                    voucherDate |-> vDate, taxType |-> tt]
    IN  IF errs # <<>>
        THEN [ok |-> FALSE, payload |-> Null, summary |-> summary]
        ELSE [ok |-> TRUE,
              payload |-> [voucherDate |-> vDate,
                           expirationDate |-> eDate,
                           address |-> addr,
                           lineItems |-> items,
                           totalPrice |-> [currency |-> "EUR"],
                           taxConditions |-> IF tt # "" THEN [taxType |-> tt] ELSE Null,
                           shippingConditions |-> [shippingType |-> "none"]],
              summary |-> summary]

\* Does the price resolution of the row fail: the row reaches the AUTO
\* unitPrice step, and has neither an articleId nor an amount, or is priced
\* from an article with neither netPrice nor grossPrice.
PriceFailure(r, articleObj, allow) ==
    LET type == toLowerTrim(r.type)
        articleId == Trim(r.articleId)
        price == numOrNull(r.unitPriceAmount)
    IN  /\ type \notin {"", "text"}
        /\ \E q \in numOrNull(r.quantity) : q > 0
        /\ Trim(r.unitName) # ""
        /\ ~(type \in {"material", "service"} /\ articleId = "")
        /\ articleId # "" => articleObj # Null
        /\ \/ articleId = "" /\ price = {}
           \/ /\ articleId # ""
              /\ ~canUseExcelPrice(type, articleId, price, allow)
              /\ articleObj.price.netPrice = {}
              /\ articleObj.price.grossPrice = {}

\* Has the row a validation problem (rules of the row loop, stated per rule):
\* no type; for a non-text row a quantity that is not > 0, no unit, a missing
\* mandatory articleId, a failed lookup, or no price from any source.
HasProblem(r, articleObj, allow) ==
    LET type == toLowerTrim(r.type)
        articleId == Trim(r.articleId)
        price == numOrNull(r.unitPriceAmount)
        fromCatalog == articleId # "" /\ ~canUseExcelPrice(type, articleId, price, allow)
    IN  /\ hasAny(r)
        /\ \/ type = ""
           \/ /\ type # "text"
              /\ \/ ~(\E q \in numOrNull(r.quantity) : q > 0)
                 \/ Trim(r.unitName) = ""
                 \/ type \in {"material", "service"} /\ articleId = ""
                 \/ articleId # "" /\ articleObj = Null
                 \/ articleId = "" /\ price = {}
                 \/ /\ fromCatalog
                    /\ articleObj # Null
                    /\ articleObj.price.netPrice = {}
                    /\ articleObj.price.grossPrice = {}

\* The five collections the row loop appends to.
Acc(errs, warns, an, bt, items) ==
    [errors |-> errs, warnings |-> warns, autoNamedLineItems |-> an,
     byType |-> bt, lineItems |-> items]

\* The collections after an iteration with outcome o.
AddOutcome(acc, o) ==
    Acc(acc.errors \o o.errors,
        acc.warnings \o o.warnings,
        acc.autoNamedLineItems \o o.autoNamed,
        Tally(acc.byType, o.typed),
        acc.lineItems \o o.items)

\* A terminal decision without the check for an empty list of line items.
FinishResultWithoutItemCheck(acc, tt, addr, vDate, eDate, allow) ==
    BuildResult(acc.errors, acc.warnings, acc.byType, acc.autoNamedLineItems,
                acc.lineItems, tt, addr, vDate, eDate, allow)

\* lines 615-640: `Keine Positionen gefunden` when no line item was pushed,
\* then the terminal decision.
FinishResult(acc, tt, addr, vDate, eDate, allow) ==
    LET errs == IF acc.lineItems = <<>> THEN Append(acc.errors, NoLineItemsError)
                ELSE acc.errors
    IN  BuildResult(errs, acc.warnings, acc.byType, acc.autoNamedLineItems,
                    acc.lineItems, tt, addr, vDate, eDate, allow)

\* The return value of the early return after the sheet presence check.
SheetCheckResult(errs) ==
    [ok |-> FALSE, payload |-> Null, summary |-> [errors |-> errs, warnings |-> <<>>]]

\* lines 425-434: read the workbook, check the three required sheets.
CheckSheets(present, n) ==
    /\ pc = "start"
    /\ sheets' = present
    /\ LET errs == MissingSheetErrors(present)
       IN  /\ errors' = errs
           /\ IF ReturnsAfterSheetCheck(errs)
              THEN /\ pc' = "done"
                   /\ nRows' = 0
                   /\ result' = SheetCheckResult(errs)
              ELSE /\ pc' = "meta"
                   /\ nRows' = IF "Positionen" \in present THEN n ELSE 0
                   /\ result' = result
    /\ UNCHANGED <<allowPriceOverride, taxType, customerName, i, warnings,
                   autoNamedLineItems, byType, lineItems, rowLog,
                   now, voucherDate, expirationDate, address>>
    /\ UNCHANGED <<rowVars, reqVars, twiceVars, priceVars, serviceVars>>

\* lines 436-462: Angebot and Kunde.
ReadMeta(tt, kunde) ==
    /\ pc = "meta"
    /\ taxType' = tt
    /\ customerName' = Trim(kunde.name)
    /\ errors' = errors \o MetaErrors(tt, Trim(kunde.name))
    /\ voucherDate' = now
    /\ expirationDate' = now + ExpirationDays
    /\ address' = Address(kunde)
    /\ pc' = "rows"
    /\ UNCHANGED <<allowPriceOverride, nRows, sheets, i, warnings,
                   autoNamedLineItems, byType, lineItems, result, rowLog, now>>
    /\ UNCHANGED <<rowVars, reqVars, twiceVars, priceVars, serviceVars>>

\* A loop that ends at the first row-level error.
RowLoopStopsAtError ==
    /\ pc = "rows"
    /\ i < nRows
    /\ \A k \in 1..Len(errors) : "row" \notin DOMAIN errors[k] \/ errors[k].sheet # "Positionen"

\* `for (let i = 0; i < posRows.length; i++)`: the loop has a row to read.
RowLoopRuns ==
    /\ pc = "rows"
    /\ i < nRows

\* lines 464-613: one iteration of the row loop, with its catalog lookup.
ProcessRow(r, articleObj) ==
    /\ RowLoopRuns
    /\ LET o == EvalRow(r, i + 2, articleObj, taxType, allowPriceOverride)
           acc == AddOutcome(Acc(errors, warnings, autoNamedLineItems, byType, lineItems), o)
       IN  /\ errors' = acc.errors
           /\ warnings' = acc.warnings
           /\ autoNamedLineItems' = acc.autoNamedLineItems
           /\ byType' = acc.byType
           /\ lineItems' = acc.lineItems
    /\ rowLog' = Append(rowLog, [blank |-> ~hasAny(r),
                                 type |-> toLowerTrim(r.type),
                                 problem |-> HasProblem(r, articleObj, allowPriceOverride),
                                 priceFailure |-> PriceFailure(r, articleObj,
                                                               allowPriceOverride)])
    /\ i' = i + 1
    /\ UNCHANGED <<pc, allowPriceOverride, nRows, taxType, customerName, sheets, result,
                   now, voucherDate, expirationDate, address>>
    /\ UNCHANGED <<rowVars, reqVars, twiceVars, priceVars, serviceVars>>

\* lines 615-640: the terminal decision.
Finish ==
    /\ pc = "rows"
    /\ ~RowLoopRuns
    /\ LET res == FinishResult(Acc(errors, warnings, autoNamedLineItems, byType, lineItems),
                               taxType, address, voucherDate, expirationDate,
                               allowPriceOverride)
       IN  /\ errors' = res.summary.errors
           /\ result' = res
    /\ pc' = "done"
    /\ UNCHANGED <<allowPriceOverride, nRows, taxType, customerName, sheets, i, warnings,
                   autoNamedLineItems, byType, lineItems, rowLog,
                   now, voucherDate, expirationDate, address>>
    /\ UNCHANGED <<rowVars, reqVars, twiceVars, priceVars, serviceVars>>

RowIdle == row = Null /\ art = Null /\ outcome = Null

\* The callers of the remote API.
Callers == {"a", "b"}

\* new TokenBucket({ capacity: 2, refillPerSec: 2 }), lastCallTs = 0, no caller.
LimiterIdle ==
    /\ tokens = capacity * PerSec /\ sinceRefill = 0 /\ queue = <<>> /\ timer = "none"
    /\ lastGranted = <<>> /\ budget = capacity * PerSec
    /\ sinceLastCall = MinInterval /\ sincePrevSend = MinInterval
    /\ callPc = [c \in Callers |-> "idle"]
    /\ callAttempt = [c \in Callers |-> 0]
    /\ callWake = [c \in Callers |-> 0]
    /\ callLog = [c \in Callers |-> <<>>]
    /\ callGrants = [c \in Callers |-> 0]
    /\ callRet = [c \in Callers |-> 0]

\* The create-offer requests of the model.
FlightRequests == {1, 2, 3}

\* const inFlight = new Map(), no request.
FlightIdle ==
    /\ inFlight = <<>>
    /\ promise = [r \in FlightRequests |-> "none"]
    /\ settledAs = [r \in FlightRequests |-> ""]
    /\ creationCalls = [r \in FlightRequests |-> 0]
    /\ handlerPc = [r \in FlightRequests |-> "new"]
    /\ requestKey = [r \in FlightRequests |-> ""]
    /\ awaited = [r \in FlightRequests |-> 0]
    /\ found = [r \in FlightRequests |-> 0]
    /\ replied = [r \in FlightRequests |-> ""]
    /\ deleteTimers = {}
    /\ removed = {}

\* The concurrent calls of getArticleById.
Lookups == {1, 2}

\* articleCache = { byId: new Map(), ... }, no call.
CacheIdle ==
    /\ articleCache = <<>>
    /\ lookPc = [l \in Lookups |-> "idle"]
    /\ lookId = [l \in Lookups |-> ""]
    /\ lookResult = [l \in Lookups |-> ""]
    /\ lookStatus = [l \in Lookups |-> 0]
    /\ lookFresh = [l \in Lookups |-> ""]
    /\ lookRemote = [l \in Lookups |-> FALSE]
    /\ served = {}

ServiceIdle == LimiterIdle /\ FlightIdle /\ CacheIdle

TwiceIdle == input = Null /\ calls = <<>>

\* No amount of the builder runs is halfway between two cents.
PriceIdle == givenAmount = 0 /\ givenRate = 0 /\ upNet = Null /\ upBack = Null /\ tieUp = TRUE

ReqIdle ==
    /\ rpc = "off" /\ endpoint = "" /\ parsed = NoResult /\ attempt = 0
    /\ posts = 0 /\ lastStatus = 0 /\ response = NoResult

BuilderIdle ==
    /\ pc = "off" /\ nRows = 0 /\ taxType = "" /\ customerName = ""
    /\ sheets = {} /\ i = 0 /\ errors = <<>> /\ warnings = <<>>
    /\ autoNamedLineItems = <<>> /\ byType = EmptyRec /\ lineItems = <<>>
    /\ result = NoResult /\ rowLog = <<>>
    /\ now = 0 /\ voucherDate = 0 /\ expirationDate = 0 /\ address = Null

Init ==
    /\ pc = "start"
    /\ allowPriceOverride \in BOOLEAN
    /\ nRows = 0 /\ taxType = "" /\ customerName = "" /\ sheets = {} /\ i = 0
    /\ errors = <<>> /\ warnings = <<>> /\ autoNamedLineItems = <<>>
    /\ byType = EmptyRec /\ lineItems = <<>>
    /\ result = NoResult /\ rowLog = <<>>
    /\ now = 0 /\ voucherDate = 0 /\ expirationDate = 0 /\ address = Null
    /\ RowIdle
    /\ ReqIdle
    /\ TwiceIdle
    /\ ServiceIdle
    /\ PriceIdle

Next ==
    \/ \E present \in SUBSET {RequiredSheets[k] : k \in 1..3}, n \in 0..MaxRows :
          CheckSheets(present, n)
    \/ \E tt \in TaxTypeCells, kunde \in LoopKundeCells : ReadMeta(tt, kunde)
    \/ \E r \in LoopRows : \E articleObj \in LookupsFor(r, LoopLookupResults) : ProcessRow(r, articleObj)
    \/ Finish

Spec == Init /\ [][Next]_vars

(***************************************************************************)
(* One row through the body of the row loop (the loop body as a function   *)
(* of the row, the lookup result, taxType and the override flag)           *)
(***************************************************************************)
InitRow ==
    /\ pc = "off"
    /\ allowPriceOverride \in BOOLEAN
    /\ taxType \in TaxTypeCells
    /\ i \in 0..1
    /\ row \in AllRows
    /\ art \in LookupsFor(row, LookupResults)
    /\ outcome = Null
    /\ nRows = 0 /\ customerName = "" /\ sheets = {}
    /\ errors = <<>> /\ warnings = <<>> /\ autoNamedLineItems = <<>>
    /\ byType = EmptyRec /\ lineItems = <<>>
    /\ result = NoResult /\ rowLog = <<>>
    /\ now = 0 /\ voucherDate = 0 /\ expirationDate = 0 /\ address = Null
    /\ ReqIdle
    /\ TwiceIdle
    /\ ServiceIdle
    /\ PriceIdle

EvalOne ==
    /\ pc = "off"
    /\ row # Null
    /\ outcome = Null
    /\ outcome' = EvalRow(row, i + 2, art, taxType, allowPriceOverride)
    /\ UNCHANGED <<row, art, builderVars, reqVars, twiceVars, priceVars, serviceVars>>

NextRow == EvalOne

SpecRow == InitRow /\ [][NextRow]_vars

(***************************************************************************)
(* The builder as one call: what the handlers await                        *)
(***************************************************************************)
\* The row loop over rows k..Len(rows); rows[k] is a pair <<row, lookup result>>.
RECURSIVE RunRows(_, _, _, _, _)
RunRows(acc, rows, k, tt, allow) ==
    IF k > Len(rows) THEN acc
    ELSE RunRows(AddOutcome(acc, EvalRow(rows[k][1], k + 1, rows[k][2], tt, allow)),
                 rows, k + 1, tt, allow)

\* parseExcelAndBuildQuotationPayload(excelBase64, { allowPriceOverride }) on
\* a workbook wb = [sheets, taxType, kunde, rows], the clock reading `clock`.
RunBuilder(wb, allow, clock) ==
    LET sheetErrs == MissingSheetErrors(wb.sheets)
        acc0 == Acc(sheetErrs \o MetaErrors(wb.taxType, Trim(wb.kunde.name)),
                    <<>>, <<>>, EmptyRec, <<>>)
    IN  IF ReturnsAfterSheetCheck(sheetErrs) THEN SheetCheckResult(sheetErrs)
        ELSE FinishResult(RunRows(acc0, wb.rows, 1, wb.taxType, allow),
                          wb.taxType, Address(wb.kunde), clock, clock + ExpirationDays,
                          allow)

PosRow(type, articleId, name, quantity, unitName, price) ==
    [type |-> type, articleId |-> articleId, name |-> name, description |-> "",
     quantity |-> quantity, unitName |-> unitName, unitPriceAmount |-> price,
     taxRatePercentage |-> "", discountPercent |-> ""]

\* The rows (with their lookup results) of the workbooks the handlers receive.
ReqRows ==
    {<<PosRow("custom", "", "N", "5", "Stk", "10"), Null>>,
     <<PosRow("custom", "", "N", "0", "Stk", "10"), Null>>,
     <<PosRow("material", "a1", "", "5", "Stk", ""), ArticleNet>>,
     <<PosRow("material", "a1", "", "5", "Stk", ""), Null>>,
     <<PosRow("text", "", "N", "", "", ""), Null>>,
     <<PosRow("", "", "", "", "", ""), Null>>}

RowSeqs(n) == UNION {[1..k -> ReqRows] : k \in 0..n}

ReqWorkbooks ==
    [sheets : {{"Angebot", "Kunde", "Positionen"}, {"Angebot", "Kunde"}},
     taxType : {"", "net"},
     kunde : KundeCells,
     rows : RowSeqs(MaxRows)]

(***************************************************************************)
(* Rate limit wrapper: lexwareRequest                                      *)
(***************************************************************************)
\* HTTP statuses the remote API answers with.
Statuses == {201, 400, 429, 500}

\* A loop that also tries again after an error status.
RetriesRequestOnAnyError(method, status) == status >= 400

\* `if (res.status !== 429) return res;` - any other status ends the loop,
\* for every method.
RetriesRequest(method, status) == status = 429

Is2xx(status) == status >= 200 /\ status < 300

(***************************************************************************)
(* Handlers: POST /api/test-excel and POST /api/create-offer               *)
(***************************************************************************)
Reply(isOk, stage, status) == [ok |-> isOk, stage |-> stage, status |-> status]

\* A handler that submits whatever the builder returned.
SubmitsAlways(p) == TRUE

\* `if (!parsed.ok) return { ... VALIDATION_ERROR ... }` of create-offer:
\* the creation call is made for a parsed.ok result only.
SubmitsPayload(p) == p.ok

\* The result of create-offer for the final response of the creation call.
CreateReply(status) ==
    IF ~Is2xx(status)
    THEN Reply(FALSE, "lexware-create", IF status = 429 THEN "RATE_LIMIT" ELSE "ERROR")
    ELSE Reply(TRUE, "lexware-create", "SUCCESS")

InitReq ==
    /\ BuilderIdle
    /\ allowPriceOverride = FALSE
    /\ RowIdle
    /\ TwiceIdle
    /\ ServiceIdle
    /\ PriceIdle
    /\ rpc = "idle" /\ endpoint = "" /\ parsed = NoResult /\ attempt = 0
    /\ posts = 0 /\ lastStatus = 0 /\ response = NoResult

\* The request arrives; input and configuration checks before the builder.
Receive(ep, hasExcelData, hasApiKey) ==
    /\ rpc = "idle"
    /\ endpoint' = ep
    /\ IF ~hasExcelData
       THEN /\ rpc' = "responded"
            /\ response' = Reply(FALSE, "input", "VALIDATION_ERROR")
       ELSE IF ep = "create-offer" /\ ~hasApiKey
       THEN /\ rpc' = "responded"
            /\ response' = Reply(FALSE, "config", "CONFIG_ERROR")
       ELSE /\ rpc' = "build"
            /\ response' = response
    /\ UNCHANGED <<parsed, attempt, posts, lastStatus>>
    /\ UNCHANGED <<builderVars, rowVars, twiceVars, priceVars, serviceVars>>

\* `const allow = typeof allowPriceOverride === 'boolean' ? allowPriceOverride
\* : ALLOW_PRICE_OVERRIDE_DEFAULT`: requested is {} when the body has no
\* boolean allowPriceOverride.
AllowOf(requested, configured) ==
    IF requested = {} THEN configured ELSE CHOOSE b \in requested : TRUE

\* `const parsed = await parseExcelAndBuildQuotationPayload(...)` and the
\* branch on parsed.ok that follows it.
Build(wb, requested, configured) ==
    /\ rpc = "build"
    /\ LET p == RunBuilder(wb, AllowOf(requested, configured), now)
       IN  /\ parsed' = p
           /\ IF endpoint = "test-excel"
              THEN /\ rpc' = "responded"
                   /\ response' = IF p.ok THEN Reply(TRUE, "test", "SUCCESS")
                                  ELSE Reply(FALSE, "validation", "VALIDATION_ERROR")
              ELSE IF SubmitsPayload(p)
              THEN /\ rpc' = "send"
                   /\ response' = response
              ELSE /\ rpc' = "responded"
                   /\ response' = Reply(FALSE, "validation", "VALIDATION_ERROR")
    /\ attempt' = 0
    /\ UNCHANGED <<endpoint, posts, lastStatus>>
    /\ UNCHANGED <<builderVars, rowVars, twiceVars, priceVars, serviceVars>>

\* The builder throws (XLSX.read on a broken file, a network error of a
\* lookup): the handler's catch answers.
BuildThrows ==
    /\ rpc = "build"
    /\ rpc' = "responded"
    /\ response' = Reply(FALSE, IF endpoint = "test-excel" THEN "test" ELSE "lexware-create",
                         "ERROR")
    /\ UNCHANGED <<endpoint, parsed, attempt, posts, lastStatus>>
    /\ UNCHANGED <<builderVars, rowVars, twiceVars, priceVars, serviceVars>>

\* One iteration of the loop of lexwareRequest({ method: 'POST', url:
\* /v1/quotations }): the creation POST is sent and answered with `status`.
SendCreate(status) ==
    /\ rpc = "send"
    /\ attempt <= maxRetries
    /\ posts' = posts + 1
    /\ lastStatus' = status
    /\ IF ~RetriesRequest("POST", status)
       THEN /\ rpc' = "responded"
            /\ response' = CreateReply(status)
            /\ attempt' = attempt
       ELSE IF attempt + 1 <= maxRetries
       THEN /\ rpc' = "send"                  \* after the backoff wait
            /\ response' = response
            /\ attempt' = attempt + 1
       ELSE /\ rpc' = "responded"             \* client retries exhausted
            /\ response' = CreateReply(429)
            /\ attempt' = attempt + 1
    /\ UNCHANGED <<endpoint, parsed>>
    /\ UNCHANGED <<builderVars, rowVars, twiceVars, priceVars, serviceVars>>

\* axios rejects (no response): the handler's catch answers.
SendThrows ==
    /\ rpc = "send"
    /\ attempt <= maxRetries
    /\ posts' = posts + 1
    /\ rpc' = "responded"
    /\ response' = Reply(FALSE, "lexware-create", "ERROR")
    /\ UNCHANGED <<endpoint, parsed, attempt, lastStatus>>
    /\ UNCHANGED <<builderVars, rowVars, twiceVars, priceVars, serviceVars>>

NextReq ==
    \/ \E ep \in {"test-excel", "create-offer"}, hasExcelData \in BOOLEAN, hasApiKey \in BOOLEAN :
          Receive(ep, hasExcelData, hasApiKey)
    \/ \E wb \in ReqWorkbooks, requested \in {{}, {TRUE}, {FALSE}}, configured \in BOOLEAN :
          Build(wb, requested, configured)
    \/ BuildThrows
    \/ \E status \in Statuses : SendCreate(status)
    \/ SendThrows

SpecReq == InitReq /\ [][NextReq]_vars

(***************************************************************************)
(* The builder called repeatedly on one input, while the clock runs        *)
(***************************************************************************)
InitTwice ==
    /\ BuilderIdle
    /\ allowPriceOverride = FALSE
    /\ RowIdle
    /\ ReqIdle
    /\ PriceIdle
    /\ ServiceIdle
    /\ input \in [wb : ReqWorkbooks, allow : BOOLEAN]
    /\ calls = <<>>

\* Time passes.
Tick ==
    /\ input # Null
    /\ now < MaxClock
    /\ now' = now + 1
    /\ UNCHANGED <<pc, allowPriceOverride, nRows, taxType, customerName, sheets, i,
                   errors, warnings, autoNamedLineItems, byType, lineItems, result, rowLog,
                   voucherDate, expirationDate, address>>
    /\ UNCHANGED <<rowVars, reqVars, twiceVars, priceVars, serviceVars>>

\* parseExcelAndBuildQuotationPayload is called on the input, with the same
\* catalog responses, and returns.
CallBuilder ==
    /\ input # Null
    /\ Len(calls) < MaxCalls
    /\ calls' = Append(calls, RunBuilder(input.wb, input.allow, now))
    /\ UNCHANGED <<input, builderVars, rowVars, reqVars, priceVars, serviceVars>>

NextTwice ==
    \/ Tick
    \/ CallBuilder

SpecTwice == InitTwice /\ [][NextTwice]_vars

(***************************************************************************)
(* A price taken from net to gross and back by the unit price builder      *)
(***************************************************************************)
\* Tax rates, in hundredths of a percent: 0, 5.5, 7, 19 and 100 percent.
TaxRates == {0, 550, 700, 1900, 10000}

InitPrice ==
    /\ BuilderIdle
    /\ allowPriceOverride = FALSE
    /\ RowIdle
    /\ ReqIdle
    /\ TwiceIdle
    /\ ServiceIdle
    /\ givenAmount \in 0..MaxAmount
    /\ givenRate \in TaxRates
    /\ upNet = Null
    /\ upBack = Null
    /\ tieUp \in BOOLEAN

\* buildUnitPriceFromExcel({ taxType: 'net', amount, taxRate })
DeriveGross ==
    /\ pc = "off" /\ rpc = "off" /\ row = Null /\ input = Null
    /\ upNet = Null
    /\ upNet' = buildUnitPriceFromExcel("net", {givenAmount}, {givenRate})
    /\ tieUp' \in BOOLEAN
    /\ UNCHANGED <<givenAmount, givenRate, upBack>>
    /\ UNCHANGED <<builderVars, rowVars, reqVars, twiceVars, serviceVars>>

\* buildUnitPriceFromExcel({ taxType: 'gross', amount, taxRate }) on the
\* gross amount just derived.
DeriveNet ==
    /\ upNet # Null
    /\ upBack = Null
    /\ upBack' = buildUnitPriceFromExcel("gross", upNet.grossAmount, {givenRate})
    /\ UNCHANGED <<givenAmount, givenRate, upNet, tieUp>>
    /\ UNCHANGED <<builderVars, rowVars, reqVars, twiceVars, serviceVars>>

NextPrice ==
    \/ DeriveGross
    \/ DeriveNet

SpecPrice == InitPrice /\ [][NextPrice]_vars

(***************************************************************************)
(* TokenBucket, enforceMinInterval and lexwareRequest with concurrent       *)
(* callers.  Every action is one run of the event loop: the code from one    *)
(* await (or timer callback) to the next.  Time is kept relative to the     *)
(* last refill and the last call, so the clock is unbounded; a timer that   *)
(* is due may fire late, never early.  The back-off sleep after a 429 and   *)
(* the duration of an HTTP request are of any length.  The bucket is also   *)
(* run on its own, with callers that only acquire a token and go on.        *)
(***************************************************************************)

Min2(x, y) == IF x <= y THEN x ELSE y

SeqRange(q) == {q[k] : k \in 1..Len(q)}

HttpStatuses == {200, 429, 500}

\* _refill: if (elapsed <= 0) return; tokens = min(capacity, tokens + elapsed * refillPerSec)
Refill(tok, elapsed) ==
    IF elapsed <= 0 THEN tok
    ELSE Min2(capacity * PerSec, tok + elapsed * refillPerSec)

\* A drain loop that resolves the acquire() queued last.
RECURSIVE DrainLoopLastFirst(_, _, _)
DrainLoopLastFirst(tok, q, granted) ==
    IF tok >= PerSec /\ q # <<>>
    THEN DrainLoopLastFirst(tok - PerSec, SubSeq(q, 1, Len(q) - 1), Append(granted, q[Len(q)]))
    ELSE [tokens |-> tok, queue |-> q, granted |-> granted]

\* A drain loop that resolves whenever any fraction of a token is left.
RECURSIVE DrainLoopAnyToken(_, _, _)
DrainLoopAnyToken(tok, q, granted) ==
    IF tok > 0 /\ q # <<>>
    THEN DrainLoopAnyToken(IF tok >= PerSec THEN tok - PerSec ELSE 0, Tail(q),
                           Append(granted, Head(q)))
    ELSE [tokens |-> tok, queue |-> q, granted |-> granted]

\* _drain: while (this.tokens >= 1 && this.queue.length) { this.tokens -= 1;
\* const resolve = this.queue.shift(); resolve(); }
RECURSIVE DrainLoop(_, _, _)
DrainLoop(tok, q, granted) ==
    IF tok >= PerSec /\ q # <<>>
    THEN DrainLoop(tok - PerSec, Tail(q), Append(granted, Head(q)))
    ELSE [tokens |-> tok, queue |-> q, granted |-> granted]

\* A drain that leaves no timer behind.
NoTimerAfterDrain(q) == "none"

\* _drain: if (this.queue.length) this.timer = setTimeout(() => this._drain(), 100)
TimerAfterDrain(q) == IF q # <<>> THEN "armed" ELSE "none"

\* _drain on the queue q, with the callers at the positions pcs and with the
\* counts grants of resolved acquire() calls: clear the timer, refill, resolve,
\* set the timer again.
Drain(q, pcs, grants) ==
    LET d == DrainLoop(Refill(tokens, sinceRefill), q, <<>>)
    IN  /\ tokens' = d.tokens
        /\ sinceRefill' = 0
        /\ queue' = d.queue
        /\ timer' = TimerAfterDrain(d.queue)
        /\ lastGranted' = d.granted
        /\ budget' = budget - PerSec * Len(d.granted)
        /\ callPc' = [c \in Callers |-> IF c \in SeqRange(d.granted) THEN "granted" ELSE pcs[c]]
        /\ callGrants' = [c \in Callers |->
                             IF c \in SeqRange(d.granted) THEN grants[c] + 1
                             ELSE grants[c]]

\* lexwareRequest is called: attempt = 0, await bucket.acquire().
Call(c) ==
    /\ callPc[c] \in {"idle", "returned"}
    /\ callAttempt' = [callAttempt EXCEPT ![c] = 0]
    /\ callLog' = [callLog EXCEPT ![c] = <<>>]
    /\ callRet' = [callRet EXCEPT ![c] = 0]
    /\ Drain(Append(queue, c), [callPc EXCEPT ![c] = "acquiring"],
             [callGrants EXCEPT ![c] = 0])
    /\ UNCHANGED <<sinceLastCall, sincePrevSend, callWake>>
    /\ UNCHANGED <<builderVars, rowVars, reqVars, twiceVars, priceVars, flightVars, cacheVars>>

\* The timer of the bucket fires: _drain.
TimerFire ==
    /\ timer = "due"
    /\ Drain(queue, callPc, callGrants)
    /\ UNCHANGED <<sinceLastCall, sincePrevSend, callAttempt, callWake, callLog,
                   callRet>>
    /\ UNCHANGED <<builderVars, rowVars, reqVars, twiceVars, priceVars, flightVars, cacheVars>>

\* The HTTP request of caller c goes out (axios is called).
Sends(c) ==
    /\ callPc' = [callPc EXCEPT ![c] = "http"]
    /\ sincePrevSend' = 0

\* acquire() has resolved: enforceMinInterval up to its await, or, without a
\* sleep, to the call of axios: diff = now - lastCallTs; if diff < MIN_INTERVAL_MS
\* sleep for the rest; else lastCallTs = now.
EnforceMinInterval(c) ==
    /\ callPc[c] = "granted"
    /\ IF MinInterval = 0
       THEN /\ Sends(c)
            /\ UNCHANGED <<sinceLastCall, callWake>>
       ELSE IF sinceLastCall < MinInterval
       THEN /\ callPc' = [callPc EXCEPT ![c] = "sleeping"]
            /\ callWake' = [callWake EXCEPT ![c] = MinInterval - sinceLastCall]
            /\ UNCHANGED <<sinceLastCall, sincePrevSend>>
       ELSE /\ Sends(c)
            /\ sinceLastCall' = 0
            /\ UNCHANGED callWake
    /\ UNCHANGED <<tokens, sinceRefill, queue, timer, lastGranted, budget, callAttempt,
                   callLog, callGrants, callRet>>
    /\ UNCHANGED <<builderVars, rowVars, reqVars, twiceVars, priceVars, flightVars, cacheVars>>

\* The sleep of enforceMinInterval is over: lastCallTs = Date.now(), then axios.
WakeUp(c) ==
    /\ callPc[c] = "sleeping"
    /\ callWake[c] = 0
    /\ Sends(c)
    /\ sinceLastCall' = 0
    /\ UNCHANGED <<tokens, sinceRefill, queue, timer, lastGranted, budget, callAttempt,
                   callWake, callLog, callGrants, callRet>>
    /\ UNCHANGED <<builderVars, rowVars, reqVars, twiceVars, priceVars, flightVars, cacheVars>>

\* The remote API answers: if (res.status !== 429) return res; else sleep.
Respond(c, status) ==
    /\ callPc[c] = "http"
    /\ callLog' = [callLog EXCEPT ![c] = Append(@, status)]
    /\ IF ~RetriesRequest("ANY", status)
       THEN /\ callPc' = [callPc EXCEPT ![c] = "returned"]
            /\ callRet' = [callRet EXCEPT ![c] = status]
       ELSE /\ callPc' = [callPc EXCEPT ![c] = "backoff"]
            /\ UNCHANGED callRet
    /\ UNCHANGED <<tokens, sinceRefill, queue, timer, lastGranted, budget, sinceLastCall,
                   sincePrevSend, callAttempt, callWake, callGrants>>
    /\ UNCHANGED <<builderVars, rowVars, reqVars, twiceVars, priceVars, flightVars, cacheVars>>

\* The back-off sleep is over: attempt++; the next attempt starts with
\* bucket.acquire(), or the loop ends with the synthetic status 429.
BackoffOver(c) ==
    /\ callPc[c] = "backoff"
    /\ callAttempt' = [callAttempt EXCEPT ![c] = @ + 1]
    /\ IF callAttempt[c] + 1 <= maxRetries
       THEN /\ Drain(Append(queue, c), [callPc EXCEPT ![c] = "acquiring"], callGrants)
            /\ UNCHANGED callRet
       ELSE /\ callPc' = [callPc EXCEPT ![c] = "returned"]
            /\ callRet' = [callRet EXCEPT ![c] = 429]
            /\ UNCHANGED <<tokens, sinceRefill, queue, timer, lastGranted, budget,
                           callGrants>>
    /\ UNCHANGED <<sinceLastCall, sincePrevSend, callWake, callLog>>
    /\ UNCHANGED <<builderVars, rowVars, reqVars, twiceVars, priceVars, flightVars, cacheVars>>

\* One tick (DrainTimerMs) of time passes.
TimePasses ==
    /\ sinceRefill' = Min2(FillTicks, sinceRefill + 1)
    /\ sinceLastCall' = Min2(MinInterval, sinceLastCall + 1)
    /\ sincePrevSend' = Min2(MinInterval, sincePrevSend + 1)
    /\ callWake' = [c \in Callers |-> IF callWake[c] > 0 THEN callWake[c] - 1 ELSE 0]
    /\ timer' = IF timer = "armed" THEN "due" ELSE timer
    /\ budget' = Min2(capacity * PerSec, budget + refillPerSec)
    /\ UNCHANGED <<tokens, queue, lastGranted, callPc, callAttempt, callLog,
                   callGrants, callRet>>
    /\ UNCHANGED <<builderVars, rowVars, reqVars, twiceVars, priceVars, flightVars, cacheVars>>

InitLimiter ==
    /\ LimiterIdle
    /\ FlightIdle
    /\ CacheIdle
    /\ BuilderIdle /\ allowPriceOverride = FALSE
    /\ RowIdle
    /\ ReqIdle
    /\ TwiceIdle
    /\ PriceIdle

NextLimiter ==
    \/ \E c \in Callers : Call(c)
    \/ TimerFire
    \/ \E c \in Callers : EnforceMinInterval(c)
    \/ \E c \in Callers : WakeUp(c)
    \/ \E c \in Callers, status \in HttpStatuses : Respond(c, status)
    \/ \E c \in Callers : BackoffOver(c)
    \/ TimePasses

SpecLimiter == InitLimiter /\ [][NextLimiter]_vars

\* bucket.acquire(): this.queue.push(resolve); this._drain()
Acquire(c) ==
    /\ callPc[c] = "idle"
    /\ Drain(Append(queue, c), [callPc EXCEPT ![c] = "acquiring"], callGrants)
    /\ UNCHANGED <<sinceLastCall, sincePrevSend, callAttempt, callWake, callLog, callRet>>
    /\ UNCHANGED <<builderVars, rowVars, reqVars, twiceVars, priceVars, flightVars, cacheVars>>

\* The caller whose acquire() resolved goes on with its work.
Proceed(c) ==
    /\ callPc[c] = "granted"
    /\ callPc' = [callPc EXCEPT ![c] = "idle"]
    /\ callGrants' = [callGrants EXCEPT ![c] = 0]
    /\ UNCHANGED <<tokens, sinceRefill, queue, timer, lastGranted, budget, sinceLastCall,
                   sincePrevSend, callAttempt, callWake, callLog, callRet>>
    /\ UNCHANGED <<builderVars, rowVars, reqVars, twiceVars, priceVars, flightVars, cacheVars>>

NextBucket ==
    \/ \E c \in Callers : Acquire(c)
    \/ TimerFire
    \/ \E c \in Callers : Proceed(c)
    \/ TimePasses

SpecBucket == InitLimiter /\ [][NextBucket]_vars

\* Time advances, and a timer that is due fires.
SpecBucketLive ==
    /\ InitLimiter
    /\ [][NextBucket]_vars
    /\ WF_vars(TimePasses)
    /\ WF_vars(TimerFire)

(***************************************************************************)
(* POST /api/create-offer with the inFlight map.  Every action is one run   *)
(* of the event loop: a handler from its start to its await, the promise of *)
(* a request from one await to the next, a handler after its await, a timer *)
(* callback.  One tick of this clock is the delay of the delete timer.      *)
(***************************************************************************)

\* The triples (excelData, allowPriceOverride, finalize) of the requests.
FlightTriples ==
    {[excelData |-> "wb1", allowPriceOverride |-> FALSE, finalize |-> FALSE],
     [excelData |-> "wb1", allowPriceOverride |-> TRUE, finalize |-> FALSE]}

\* hashRequest: the SHA-256 of finalize, allowPriceOverride and excelData joined
\* with `|`; the digest is taken as the string it is computed from.
hashRequest(t) ==
    (IF t.finalize THEN "1" ELSE "0") \o "|"
        \o (IF t.allowPriceOverride THEN "1" ELSE "0") \o "|" \o t.excelData

\* A map that never reports an entry.
HasNever(map, key) == FALSE

\* inFlight.has(key)
Has(map, key) == key \in DOMAIN map

\* inFlight.set(key, promise)
MapSet(map, key, value) ==
    [k \in DOMAIN map \cup {key} |-> IF k = key THEN value ELSE map[k]]

\* inFlight.delete(key)
MapDelete(map, key) == [k \in DOMAIN map \ {key} |-> map[k]]

\* What the promises of the model are fulfilled with (the status of the object).
BuildOutcomes == {"VALIDATION_ERROR", "ok", "throws"}
PostOutcomes == {"SUCCESS", "RATE_LIMIT", "ERROR", "throws"}

\* The handler from its start to its first await: the key, the look into the
\* map, and either `await inFlight.get(key)` or the start of the promise (which
\* runs the builder up to its first await), inFlight.set and `await promise`.
Arrive(r, t) ==
    /\ handlerPc[r] = "new"
    /\ LET key == hashRequest(t)
       IN  /\ requestKey' = [requestKey EXCEPT ![r] = key]
           /\ found' = [found EXCEPT ![r] = IF key \in DOMAIN inFlight THEN inFlight[key] ELSE 0]
           /\ IF Has(inFlight, key)
              THEN /\ awaited' = [awaited EXCEPT ![r] = inFlight[key]]
                   /\ handlerPc' = [handlerPc EXCEPT ![r] = "awaitCached"]
                   /\ UNCHANGED <<inFlight, promise>>
              ELSE /\ promise' = [promise EXCEPT ![r] = "building"]
                   /\ inFlight' = MapSet(inFlight, key, r)
                   /\ awaited' = [awaited EXCEPT ![r] = r]
                   /\ handlerPc' = [handlerPc EXCEPT ![r] = "awaitOwn"]
    /\ UNCHANGED <<settledAs, creationCalls, replied, deleteTimers, removed>>
    /\ UNCHANGED <<builderVars, rowVars, reqVars, twiceVars, priceVars, limiterVars, cacheVars>>

\* The builder of the promise of request r ends: with errors, with a payload
\* (lexwareRequest POST is called), or it throws.
BuildEnds(r, out) ==
    /\ promise[r] = "building"
    /\ promise' = [promise EXCEPT ![r] = CASE out = "ok" -> "posting"
                                          [] out = "throws" -> "rejected"
                                          [] OTHER -> "fulfilled"]
    /\ settledAs' = [settledAs EXCEPT ![r] = CASE out = "ok" -> ""
                                              [] out = "throws" -> "UNHANDLED_EXCEPTION"
                                              [] OTHER -> out]
    /\ creationCalls' = [creationCalls EXCEPT ![r] = IF out = "ok" THEN @ + 1 ELSE @]
    /\ UNCHANGED <<inFlight, handlerPc, requestKey, awaited, found, replied, deleteTimers,
                   removed>>
    /\ UNCHANGED <<builderVars, rowVars, reqVars, twiceVars, priceVars, limiterVars, cacheVars>>

\* lexwareRequest POST of the promise of request r returns, or throws.
PostEnds(r, out) ==
    /\ promise[r] = "posting"
    /\ promise' = [promise EXCEPT ![r] = IF out = "throws" THEN "rejected" ELSE "fulfilled"]
    /\ settledAs' = [settledAs EXCEPT ![r] = IF out = "throws" THEN "UNHANDLED_EXCEPTION"
                                             ELSE out]
    /\ UNCHANGED <<inFlight, creationCalls, handlerPc, requestKey, awaited, found, replied,
                   deleteTimers, removed>>
    /\ UNCHANGED <<builderVars, rowVars, reqVars, twiceVars, priceVars, limiterVars, cacheVars>>

\* A handler that sets the delete timer whatever became of the promise.
DeletesAlways(state) == TRUE

\* `const result = await promise; setTimeout(...)`: the line after the await
\* runs only when the promise was fulfilled; a rejection goes to `catch`.
DeletesAfter(state) == state = "fulfilled"

\* The handler that created the promise goes on after `await promise`.
OwnerResumes(r) ==
    /\ handlerPc[r] = "awaitOwn"
    /\ promise[r] \in {"fulfilled", "rejected"}
    /\ deleteTimers' = IF DeletesAfter(promise[r])
                       THEN deleteTimers \cup {<<requestKey[r], "armed">>}
                       ELSE deleteTimers
    /\ replied' = [replied EXCEPT ![r] = settledAs[r]]
    /\ handlerPc' = [handlerPc EXCEPT ![r] = "done"]
    /\ UNCHANGED <<inFlight, promise, settledAs, creationCalls, requestKey, awaited, found,
                   removed>>
    /\ UNCHANGED <<builderVars, rowVars, reqVars, twiceVars, priceVars, limiterVars, cacheVars>>

\* A handler that found the entry goes on after `await inFlight.get(key)`.
FollowerResumes(r) ==
    /\ handlerPc[r] = "awaitCached"
    /\ promise[awaited[r]] \in {"fulfilled", "rejected"}
    /\ replied' = [replied EXCEPT ![r] = settledAs[awaited[r]]]
    /\ handlerPc' = [handlerPc EXCEPT ![r] = "done"]
    /\ UNCHANGED <<inFlight, promise, settledAs, creationCalls, requestKey, awaited, found,
                   deleteTimers, removed>>
    /\ UNCHANGED <<builderVars, rowVars, reqVars, twiceVars, priceVars, limiterVars, cacheVars>>

\* The delay of the delete timers passes.
FlightTimePasses ==
    /\ \E tm \in deleteTimers : tm[2] = "armed"
    /\ deleteTimers' = {<<tm[1], "due">> : tm \in deleteTimers}
    /\ UNCHANGED <<inFlight, promise, settledAs, creationCalls, handlerPc, requestKey,
                   awaited, found, replied, removed>>
    /\ UNCHANGED <<builderVars, rowVars, reqVars, twiceVars, priceVars, limiterVars, cacheVars>>

\* A delete timer fires: inFlight.delete(key).
DeleteTimerFires(key) ==
    /\ <<key, "due">> \in deleteTimers
    /\ deleteTimers' = deleteTimers \ {<<key, "due">>}
    /\ inFlight' = MapDelete(inFlight, key)
    /\ removed' = IF key \in DOMAIN inFlight THEN removed \cup {inFlight[key]} ELSE removed
    /\ UNCHANGED <<promise, settledAs, creationCalls, handlerPc, requestKey, awaited, found,
                   replied>>
    /\ UNCHANGED <<builderVars, rowVars, reqVars, twiceVars, priceVars, limiterVars, cacheVars>>

InitFlight ==
    /\ FlightIdle
    /\ LimiterIdle
    /\ CacheIdle
    /\ BuilderIdle /\ allowPriceOverride = FALSE
    /\ RowIdle
    /\ ReqIdle
    /\ TwiceIdle
    /\ PriceIdle

NextFlight ==
    \/ \E r \in FlightRequests, t \in FlightTriples : Arrive(r, t)
    \/ \E r \in FlightRequests, out \in BuildOutcomes : BuildEnds(r, out)
    \/ \E r \in FlightRequests, out \in PostOutcomes : PostEnds(r, out)
    \/ \E r \in FlightRequests : OwnerResumes(r)
    \/ \E r \in FlightRequests : FollowerResumes(r)
    \/ FlightTimePasses
    \/ \E t \in FlightTriples : DeleteTimerFires(hashRequest(t))

SpecFlight == InitFlight /\ [][NextFlight]_vars

\* Promises settle, handlers go on after their await, time passes and timers
\* that are due fire.
SpecFlightLive ==
    /\ InitFlight
    /\ [][NextFlight]_vars
    /\ \A r \in FlightRequests :
          /\ WF_vars(\E out \in BuildOutcomes : BuildEnds(r, out))
          /\ WF_vars(\E out \in PostOutcomes : PostEnds(r, out))
          /\ WF_vars(OwnerResumes(r))
          /\ WF_vars(FollowerResumes(r))
    /\ WF_vars(FlightTimePasses)
    /\ \A t \in FlightTriples : WF_vars(DeleteTimerFires(hashRequest(t)))

(***************************************************************************)
(* getArticleById with the article cache, called concurrently.  An action   *)
(* is the call up to its await of lexwareRequest, or the rest of the call    *)
(* after it.                                                                 *)
(***************************************************************************)

ArticleIds == {"", "a1", "a2"}

\* The article data the remote API holds for an id; it changes over time.
ArticleData == {"v1", "v2"}

\* The statuses lexwareRequest returns for the GET.
LookupStatuses == {200, 404, 429, 500}

\* A cache that stores whatever came back.
StoresAnyResponse(status) == TRUE

\* if (res.status >= 200 && res.status < 300) articleCache.byId.set(...)
StoresResponse(status) == Is2xx(status)

\* cached && (Date.now() - cached._ts) < articleCache.ttlMs
IsFresh(byId, id) == id \in DOMAIN byId /\ byId[id].age < TtlTicks

\* getArticleById(id) up to its return or to its await of lexwareRequest GET.
GetArticleById(l, id) ==
    /\ lookPc[l] \in {"idle", "done"}
    /\ lookId' = [lookId EXCEPT ![l] = id]
    /\ lookStatus' = [lookStatus EXCEPT ![l] = 0]
    /\ lookFresh' = [lookFresh EXCEPT ![l] =
                        IF id \in DOMAIN articleCache /\ articleCache[id].age < TtlTicks
                        THEN articleCache[id].data ELSE ""]
    /\ IF id = ""
       THEN /\ lookResult' = [lookResult EXCEPT ![l] = "null"]
            /\ lookPc' = [lookPc EXCEPT ![l] = "done"]
            /\ lookRemote' = [lookRemote EXCEPT ![l] = FALSE]
       ELSE IF IsFresh(articleCache, id)
       THEN /\ lookResult' = [lookResult EXCEPT ![l] = articleCache[id].data]
            /\ lookPc' = [lookPc EXCEPT ![l] = "done"]
            /\ lookRemote' = [lookRemote EXCEPT ![l] = FALSE]
       ELSE /\ lookResult' = [lookResult EXCEPT ![l] = ""]
            /\ lookPc' = [lookPc EXCEPT ![l] = "waiting"]
            /\ lookRemote' = [lookRemote EXCEPT ![l] = TRUE]
    /\ UNCHANGED <<articleCache, served>>
    /\ UNCHANGED <<builderVars, rowVars, reqVars, twiceVars, priceVars, limiterVars,
                   flightVars>>

\* lexwareRequest GET returns with a status, and for a 2xx with the data.
GetReturns(l, status, data) ==
    /\ lookPc[l] = "waiting"
    /\ lookStatus' = [lookStatus EXCEPT ![l] = status]
    /\ served' = IF Is2xx(status) THEN served \cup {<<lookId[l], data>>} ELSE served
    /\ IF StoresResponse(status)
       THEN /\ articleCache' = MapSet(articleCache, lookId[l], [age |-> 0, data |-> data])
            /\ lookResult' = [lookResult EXCEPT ![l] = data]
       ELSE /\ lookResult' = [lookResult EXCEPT ![l] = "null"]
            /\ UNCHANGED articleCache
    /\ lookPc' = [lookPc EXCEPT ![l] = "done"]
    /\ UNCHANGED <<lookId, lookFresh, lookRemote>>
    /\ UNCHANGED <<builderVars, rowVars, reqVars, twiceVars, priceVars, limiterVars,
                   flightVars>>

\* One tick of the clock of the cache passes.
CacheTimePasses ==
    /\ \E id \in DOMAIN articleCache : articleCache[id].age < TtlTicks
    /\ articleCache' = [id \in DOMAIN articleCache |->
                           [articleCache[id] EXCEPT !.age = Min2(TtlTicks, @ + 1)]]
    /\ UNCHANGED <<lookPc, lookId, lookResult, lookStatus, lookFresh, lookRemote, served>>
    /\ UNCHANGED <<builderVars, rowVars, reqVars, twiceVars, priceVars, limiterVars,
                   flightVars>>

InitCache ==
    /\ CacheIdle
    /\ LimiterIdle
    /\ FlightIdle
    /\ BuilderIdle /\ allowPriceOverride = FALSE
    /\ RowIdle
    /\ ReqIdle
    /\ TwiceIdle
    /\ PriceIdle

NextCache ==
    \/ \E l \in Lookups, id \in ArticleIds : GetArticleById(l, id)
    \/ \E l \in Lookups, status \in LookupStatuses, data \in ArticleData :
          GetReturns(l, status, data)
    \/ CacheTimePasses

SpecCache == InitCache /\ [][NextCache]_vars

(***************************************************************************)
(* Properties of parseExcelAndBuildQuotationPayload and of the handlers.   *)
(***************************************************************************)

AllSheets == {RequiredSheets[k] : k \in 1..Len(RequiredSheets)}

\* The indexes of the row-level errors (sheet Positionen, with a row number).
RowErrorIndexes(errs) ==
    {k \in 1..Len(errs) : errs[k].sheet = "Positionen" /\ "row" \in DOMAIN errs[k]}

\* The non-text line items of a sequence of line items.
PricedItems(items) == {k \in 1..Len(items) : items[k].type # "text"}

\* C1: whenever the builder has returned, a non-empty error list comes with a
\* null payload: a non-null payload is returned only with an empty error list.
C1_ErrorsExcludePayload ==
    result # NoResult =>
        /\ result.summary.errors # <<>> => result.payload = Null /\ ~result.ok
        /\ result.payload # Null => result.summary.errors = <<>>

\* C1 witness: the builder returned a null payload although one row built a
\* valid line item, because another row had an error.
C1_Witness ==
    /\ pc = "done"
    /\ result # NoResult
    /\ result.payload = Null
    /\ Len(lineItems) = 1
    /\ Cardinality(RowErrorIndexes(result.summary.errors)) = 1

\* C2: a creation POST is sent only by create-offer and only after the
\* builder returned ok with an empty error list and a payload; test-excel and
\* a failed validation never send one.
C2_PostOnlyAfterValidPayload ==
    /\ posts > 0 =>
          /\ endpoint = "create-offer"
          /\ parsed # NoResult
          /\ parsed.ok
          /\ parsed.summary.errors = <<>>
          /\ parsed.payload # Null
    /\ endpoint = "test-excel" => posts = 0
    /\ (parsed # NoResult /\ parsed.summary.errors # <<>>) => posts = 0

\* C2 witness: create-offer answered SUCCESS after one creation POST.
C2_Witness ==
    /\ rpc = "responded"
    /\ endpoint = "create-offer"
    /\ parsed # NoResult
    /\ parsed.ok
    /\ posts = 1
    /\ response.status = "SUCCESS"

\* C3: one create-offer request sends at most one creation POST, also when
\* the remote service answers 429.
C3_AtMostOneCreationPost == posts <= 1

\* C4: with a required sheet missing the builder returns at once: one error
\* per missing sheet and nothing else, a null payload, no metadata read, no
\* row evaluated.
C4_MissingSheetReturnsAtOnce ==
    (pc # "start" /\ pc # "off" /\ sheets # AllSheets) =>
        /\ pc = "done"
        /\ Len(errors) = Cardinality(AllSheets \ sheets)
        /\ \A name \in AllSheets \ sheets :
              Cardinality({k \in 1..Len(errors) : errors[k].sheet = name}) = 1
        /\ \A k \in 1..Len(errors) :
              /\ errors[k].sheet \in AllSheets \ sheets
              /\ DOMAIN errors[k] = {"sheet", "message"}
        /\ result.summary.errors = errors
        /\ result.payload = Null
        /\ taxType = ""
        /\ customerName = ""
        /\ i = 0
        /\ rowLog = <<>>
        /\ lineItems = <<>>

\* C4 witness: the builder returned with two sheets missing.
C4_Witness ==
    /\ pc = "done"
    /\ sheets = {"Kunde"}
    /\ Len(errors) = 2

\* The workbook of the scenario: taxType net, no customer name, one valid
\* custom row.
C5_ScenarioWorkbook ==
    [sheets |-> AllSheets, taxType |-> "net",
     kunde |-> [name |-> "", contactId |-> "", city |-> ""],
     rows |-> <<<<PosRow("custom", "", "N", "5", "Stk", "10"), Null>>>>]

\* C5: a missing taxType or customer name is an error at row 2 of its sheet
\* and the pass goes on: every Positionen row is evaluated and its error is
\* in the same summary, which the terminal decision returns with no payload.
C5_MetadataErrorsDoNotStopPass ==
    /\ (pc \in {"rows", "done"} /\ sheets = AllSheets) =>
          /\ taxType = "" =>
                \E k \in 1..Len(errors) :
                    /\ errors[k].sheet = "Angebot"
                    /\ errors[k].row = 2
                    /\ errors[k].field = "taxType"
          /\ customerName = "" =>
                \E k \in 1..Len(errors) :
                    /\ errors[k].sheet = "Kunde"
                    /\ errors[k].row = 2
                    /\ errors[k].field = "name"
    /\ (pc = "done" /\ sheets = AllSheets /\ (taxType = "" \/ customerName = "")) =>
          /\ Len(rowLog) = nRows
          /\ \A k \in 1..Len(rowLog) :
                rowLog[k].problem =>
                    \E e \in RowErrorIndexes(result.summary.errors) :
                        result.summary.errors[e].row = k + 1
          /\ result.payload = Null
    /\ LET res == RunBuilder(C5_ScenarioWorkbook, FALSE, now)
       IN  /\ Len(res.summary.errors) = 1
           /\ res.summary.errors[1].sheet = "Kunde"
           /\ res.summary.errors[1].row = 2
           /\ res.summary.errors[1].field = "name"
           /\ res.payload = Null

\* C5 witness: the customer name was missing and the returned summary holds
\* its error together with the error of the second Positionen row.
C5_Witness ==
    /\ pc = "done"
    /\ sheets = AllSheets
    /\ customerName = ""
    /\ taxType = "net"
    /\ nRows = 2
    /\ \E k \in 1..Len(result.summary.errors) :
          result.summary.errors[k].sheet = "Kunde" /\ result.summary.errors[k].field = "name"
    /\ \E e \in RowErrorIndexes(result.summary.errors) : result.summary.errors[e].row = 3

C7_ItemsPlusErrorsAreNonBlankRows ==
    Len(lineItems) + Cardinality(RowErrorIndexes(errors))
        = Cardinality({k \in 1..Len(rowLog) : ~rowLog[k].blank})

\* C7 witness: of two rows evaluated, one gave a line item and one an error.
C7_Witness ==
    /\ pc = "done"
    /\ Len(rowLog) = 2
    /\ ~rowLog[1].blank
    /\ ~rowLog[2].blank
    /\ Len(lineItems) = 1
    /\ Cardinality(RowErrorIndexes(errors)) = 1

\* The row under evaluation is a material row without an articleId.
MaterialWithoutArticleId ==
    /\ outcome # Null
    /\ toLowerTrim(row.type) = "material"
    /\ Trim(row.articleId) = ""

\* C8 as stated: a material row without articleId gives exactly one error,
\* with field articleId, and no line item, whatever its other fields hold.
C8_AlwaysArticleIdError ==
    MaterialWithoutArticleId =>
        /\ outcome.items = <<>>
        /\ Len(outcome.errors) = 1
        /\ outcome.errors[1].field = "articleId"

\* C8 amended: a material row without articleId gives no line item and
\* exactly one error for its row; the field is articleId when the quantity
\* is above 0 and the unitName is not empty, and else qty or unitName, which
\* are checked first.
C8_OneErrorNoItem ==
    MaterialWithoutArticleId =>
        /\ outcome.items = <<>>
        /\ Len(outcome.errors) = 1
        /\ outcome.errors[1].sheet = "Positionen"
        /\ outcome.errors[1].row = i + 2
        /\ outcome.errors[1].field =
              IF ~(\E q \in numOrNull(row.quantity) : q > 0) THEN "qty"
              ELSE IF Trim(row.unitName) = "" THEN "unitName"
              ELSE "articleId"

\* C8 witness: a material row with quantity, unit and price but no articleId
\* got the articleId error.
C8_Witness ==
    /\ MaterialWithoutArticleId
    /\ row.quantity = "5"
    /\ row.unitName = "Stk"
    /\ row.unitPriceAmount = "10"
    /\ outcome.errors[1].field = "articleId"

\* C9: a text row never gets a quantity or a unit price error; it gives one
\* text line item named by its name, else its description, else
\* "Hinweis <row>".
C9_TextRowsNeedNoQuantityOrPrice ==
    (outcome # Null /\ toLowerTrim(row.type) = "text") =>
        /\ \A k \in 1..Len(outcome.errors) :
              outcome.errors[k].field \notin {"qty", "quantity", "unitPriceAmount"}
        /\ outcome.errors = <<>>
        /\ Len(outcome.items) = 1
        /\ outcome.items[1].type = "text"
        /\ outcome.items[1].name =
              IF Trim(row.name) # "" THEN Trim(row.name)
              ELSE IF Trim(row.description) # "" THEN Trim(row.description)
              ELSE "Hinweis " \o ToString(i + 2)
        /\ DOMAIN outcome.items[1] \subseteq {"type", "name", "description"}

\* C9 witness: a text row with no name, a description, no quantity and no
\* price became a line item named by the description.
C9_Witness ==
    /\ outcome # Null
    /\ row.type = "text"
    /\ row.name = ""
    /\ row.description = "D"
    /\ row.quantity = ""
    /\ row.unitPriceAmount = ""
    /\ outcome.items = <<[type |-> "text", name |-> "D", description |-> "D"]>>

C11_OneAddressingMode ==
    (result # NoResult /\ result.payload # Null) =>
        LET a == result.payload.address
        IN  IF "contactId" \in DOMAIN a
            THEN DOMAIN a \cap {"name", "city"} = {}
            ELSE {"name", "countryCode"} \subseteq DOMAIN a

\* C12: all calls of the builder on one input with the same catalog responses
\* return the same payload and the same summary.
C12_SameInputSameResult ==
    \A a \in 1..Len(calls), b \in 1..Len(calls) : calls[a] = calls[b]

\* C13: a net amount of two decimals taken to gross (times 1 + rate/100,
\* rounded to the nearest cent) and back to net (divided by 1 + rate/100,
\* rounded) is the net amount again, and the tax rate is kept; net 10 at 19
\* percent gives gross 11.90 and gross 11.90 gives net 10.00.
C13_PriceRoundTrip ==
    /\ upNet # Null =>
          /\ upNet.netAmount = {givenAmount}
          /\ upNet.taxRatePercentage = givenRate
          /\ \E g \in upNet.grossAmount :
                LET d == g * 10000 - givenAmount * (10000 + givenRate)
                IN  -5000 <= d /\ d <= 5000
          /\ (givenAmount = 1000 /\ givenRate = 1900) => upNet.grossAmount = {1190}
    /\ upBack # Null =>
          /\ upBack.grossAmount = upNet.grossAmount
          /\ upBack.netAmount = {givenAmount}
          /\ upBack.taxRatePercentage = givenRate

\* C13 witness: net 10.00 at 19 percent went to gross 11.90 and back to net
\* 10.00.
C13_Witness ==
    /\ givenAmount = 1000
    /\ givenRate = 1900
    /\ upNet # Null
    /\ upNet.grossAmount = {1190}
    /\ upBack # Null
    /\ upBack.netAmount = {1000}

\* The row of the scenario: material, articleId, quantity 10, unit, no price.
C14_ScenarioRow ==
    [type |-> "material", articleId |-> "a1", name |-> "", description |-> "",
     quantity |-> "10", unitName |-> "Stk", unitPriceAmount |-> "",
     taxRatePercentage |-> "", discountPercent |-> ""]

\* C14: a material row that gives a line item is priced from the catalog
\* article: its unitPrice has the article's net or gross price and tax rate,
\* and the line item is the same for both values of allowPriceOverride and
\* with or without a price in the spreadsheet.
C14_MaterialPricesFromCatalog ==
    /\ (outcome # Null /\ toLowerTrim(row.type) = "material" /\ outcome.items # <<>>) =>
          /\ art # Null
          /\ LET up == outcome.items[1].unitPrice
             IN  /\ art.price.netPrice # {} => up.netAmount = art.price.netPrice
                 /\ art.price.grossPrice # {} => up.grossAmount = art.price.grossPrice
                 /\ up.taxRatePercentage \in art.price.taxRate
          /\ \A allow \in BOOLEAN, price \in {"", "10", "6,9"} :
                EvalRow([row EXCEPT !.unitPriceAmount = price], i + 2, art, taxType, allow).items
                    = outcome.items
    /\ LET o == EvalRow(C14_ScenarioRow, 2, ArticleGross, "gross", FALSE)
       IN  /\ Len(o.items) = 1
           /\ o.items[1].unitPrice.grossAmount = {595}
           /\ \E k \in 1..Len(o.warnings) :
                 o.warnings[k].message
                     = "Preis automatisch aus Artikelstamm gesetzt (articleId=a1)."

\* C14 witness: a material row with a price in the spreadsheet, evaluated
\* with the override allowed, got the gross price of its article.
C14_Witness ==
    /\ outcome # Null
    /\ row.type = "material"
    /\ row.unitPriceAmount = "10"
    /\ allowPriceOverride
    /\ art = ArticleGross
    /\ Len(outcome.items) = 1
    /\ outcome.items[1].unitPrice.grossAmount = {595}

\* The row under evaluation has an articleId and a price in the spreadsheet
\* and gave a line item.
ItemWithArticleAndExcelPrice ==
    /\ outcome # Null
    /\ Trim(row.articleId) # ""
    /\ numOrNull(row.unitPriceAmount) # {}
    /\ outcome.items # <<>>

\* The unit price is the one of the spreadsheet: the amount on the side of
\* taxType, the tax rate of the row or 19.
ExcelPriced(up) ==
    /\ taxType = "gross" => up.grossAmount = numOrNull(row.unitPriceAmount)
    /\ taxType # "gross" => up.netAmount = numOrNull(row.unitPriceAmount)
    /\ up.taxRatePercentage \in
          (IF numOrNull(row.taxRatePercentage) # {} THEN numOrNull(row.taxRatePercentage)
           ELSE {DefaultTaxRate})

\* The unit price is the one of the catalog article.
CatalogPriced(up) ==
    /\ art # Null
    /\ art.price.netPrice # {} => up.netAmount = art.price.netPrice
    /\ art.price.grossPrice # {} => up.grossAmount = art.price.grossPrice
    /\ up.taxRatePercentage \in art.price.taxRate

\* The flag is the caller's boolean when there is one, else the default.
FlagIsCallersOrDefault ==
    \A configured \in BOOLEAN :
        /\ AllowOf({}, configured) = configured
        /\ \A b \in BOOLEAN : AllowOf({b}, configured) = b

\* C15 as stated: a service or custom row with an articleId and a price in
\* the spreadsheet takes the spreadsheet price when the override flag is true
\* and the catalog price when it is false.
C15_FlagDecidesForServiceAndCustom ==
    /\ (ItemWithArticleAndExcelPrice /\ toLowerTrim(row.type) \in {"service", "custom"}) =>
          IF allowPriceOverride THEN ExcelPriced(outcome.items[1].unitPrice)
          ELSE CatalogPriced(outcome.items[1].unitPrice)
    /\ FlagIsCallersOrDefault

\* C15 amended: a custom row with an articleId and a price in the
\* spreadsheet takes the spreadsheet price when the override flag is true and
\* the catalog price when it is false; a service row takes the catalog price
\* for both values of the flag. The flag is the caller's boolean or the
\* configured default.
C15_FlagDecidesForCustom ==
    /\ (ItemWithArticleAndExcelPrice /\ toLowerTrim(row.type) = "custom") =>
          IF allowPriceOverride THEN ExcelPriced(outcome.items[1].unitPrice)
          ELSE CatalogPriced(outcome.items[1].unitPrice)
    /\ (ItemWithArticleAndExcelPrice /\ toLowerTrim(row.type) = "service") =>
          CatalogPriced(outcome.items[1].unitPrice)
    /\ FlagIsCallersOrDefault

\* C15 witness: a custom row with articleId and price 10, evaluated with the
\* override allowed under taxType net, has netAmount 10.00 and not the 8.00
\* of its article.
C15_Witness ==
    /\ ItemWithArticleAndExcelPrice
    /\ row.type = "custom"
    /\ row.unitPriceAmount = "10"
    /\ allowPriceOverride
    /\ taxType = "net"
    /\ art = ArticleNet
    /\ outcome.items[1].unitPrice.netAmount = {1000}

\* C16: a row that is not blank and whose type is missing or is none of
\* custom, material, service, text gives a row error and no line item.
C16_UnknownTypeIsRowError ==
    (/\ outcome # Null
     /\ hasAny(row)
     /\ toLowerTrim(row.type) \notin {"custom", "material", "service", "text"}) =>
        /\ outcome.items = <<>>
        /\ Len(outcome.errors) >= 1
        /\ outcome.errors[1].row = i + 2

\* The row under evaluation is a non-text row without a name that passes the
\* quantity, unit and mandatory articleId checks.
NameFallbackRow ==
    /\ outcome # Null
    /\ toLowerTrim(row.type) \notin {"", "text"}
    /\ Trim(row.name) = ""
    /\ \E q \in numOrNull(row.quantity) : q > 0
    /\ Trim(row.unitName) # ""
    /\ ~(toLowerTrim(row.type) \in {"material", "service"} /\ Trim(row.articleId) = "")

\* The name the fallback gives: the title of the article, "Artikel <id>"
\* without a title, "Position <row>" without an articleId.
FallbackName ==
    IF Trim(row.articleId) = "" THEN "Position " \o ToString(i + 2)
    ELSE IF art # Null /\ art.title # "" THEN art.title
    ELSE "Artikel " \o Trim(row.articleId)

\* The line item has the fallback name, recorded as one warning and one
\* autoNamedLineItems entry (a second warning can only be the price warning).
FallbackRecorded ==
    /\ Len(outcome.items) = 1
    /\ outcome.items[1].name = FallbackName
    /\ Len(outcome.autoNamed) = 1
    /\ outcome.autoNamed[1].row = i + 2
    /\ outcome.autoNamed[1].name = FallbackName
    /\ Len(outcome.warnings) \in {1, 2}
    /\ outcome.warnings[1].row = i + 2
    /\ outcome.warnings[1].message =
          (IF Trim(row.articleId) # "" THEN "Name war leer, automatisch aus Artikel ergaenzt: "
           ELSE "Name war leer, automatisch gesetzt: ") \o FallbackName
    /\ Len(outcome.warnings) = 2 =>
          outcome.warnings[2].message = "Preis automatisch aus Artikelstamm gesetzt (articleId="
                                            \o Trim(row.articleId) \o ")."

\* The lookup of the row's article failed although the row brings its own
\* usable price.
LookupFailedWithExcelPrice ==
    /\ Trim(row.articleId) # ""
    /\ art = Null
    /\ canUseExcelPrice(toLowerTrim(row.type), Trim(row.articleId),
                        numOrNull(row.unitPriceAmount), allowPriceOverride)

\* C17 as stated: a non-text row with blank name and an articleId gets the
\* catalog title, or "Artikel <id>" when the lookup fails or has no title,
\* with one warning and one autoNamedLineItems entry; without an articleId it
\* gets "Position <row>".
C17_NameFallbackWithPlaceholder ==
    NameFallbackRow =>
        /\ outcome.items # <<>> => FallbackRecorded
        /\ LookupFailedWithExcelPrice => FallbackRecorded

\* C17 amended: the name is the catalog title, or "Artikel <id>" when the
\* article has no title, or "Position <row>" without an articleId, each with
\* one warning and one autoNamedLineItems entry; when the lookup fails the
\* row gets an articleId error, no line item and no name record.
C17_NameFallback ==
    NameFallbackRow =>
        /\ outcome.items # <<>> => FallbackRecorded
        /\ (Trim(row.articleId) # "" /\ art = Null) =>
              /\ outcome.items = <<>>
              /\ Len(outcome.errors) = 1
              /\ outcome.errors[1].field = "articleId"
              /\ outcome.autoNamed = <<>>
              /\ outcome.warnings = <<>>

\* C17 witness: a custom row without a name, whose article has no title,
\* became the line item "Artikel a1".
C17_Witness ==
    /\ NameFallbackRow
    /\ row.type = "custom"
    /\ row.articleId = "a1"
    /\ art = ArticleGross
    /\ Len(outcome.items) = 1
    /\ outcome.items[1].name = "Artikel a1"
    /\ Len(outcome.autoNamed) = 1

\* C18: a row whose price resolution fails has exactly one error, with field
\* unitPriceAmount; it gives no line item (the line items are as many as the
\* rows without any problem), and the rows after it are still evaluated.
C18_PriceFailureIsOneRowError ==
    /\ \A k \in 1..Len(rowLog) :
          rowLog[k].priceFailure =>
              /\ Cardinality({e \in RowErrorIndexes(errors) : errors[e].row = k + 1}) = 1
              /\ \A e \in RowErrorIndexes(errors) :
                    errors[e].row = k + 1 => errors[e].field = "unitPriceAmount"
    /\ Len(lineItems)
          = Cardinality({k \in 1..Len(rowLog) : ~rowLog[k].blank /\ ~rowLog[k].problem})
    /\ pc = "rows" => Len(rowLog) = i
    /\ (pc = "done" /\ sheets = AllSheets) => Len(rowLog) = nRows

\* C18 witness: the price of the first row could not be resolved, the second
\* row was evaluated all the same and is the one line item.
C18_Witness ==
    /\ pc = "done"
    /\ Len(rowLog) = 2
    /\ rowLog[1].priceFailure
    /\ ~rowLog[2].blank
    /\ ~rowLog[2].problem
    /\ Len(lineItems) = 1
    /\ \E e \in RowErrorIndexes(errors) :
          errors[e].row = 2 /\ errors[e].field = "unitPriceAmount"

\* C19: every non-text line item has a quantity above 0 and a unitName that is
\* not empty; a non-text row with a quantity that is no number above 0, or
\* without a unitName, gives one row error (qty or unitName) and no line item.
C19_QuantityAndUnitRequired ==
    outcome # Null =>
        /\ \A k \in 1..Len(outcome.items) :
              outcome.items[k].type # "text" =>
                  /\ Cardinality(outcome.items[k].quantity) = 1
                  /\ \A q \in outcome.items[k].quantity : q > 0
                  /\ outcome.items[k].unitName # ""
        /\ (/\ toLowerTrim(row.type) \notin {"", "text"}
            /\ \/ ~(\E q \in numOrNull(row.quantity) : q > 0)
               \/ Trim(row.unitName) = "") =>
              /\ outcome.items = <<>>
              /\ Len(outcome.errors) = 1
              /\ outcome.errors[1].row = i + 2
              /\ outcome.errors[1].field =
                    IF ~(\E q \in numOrNull(row.quantity) : q > 0) THEN "qty" ELSE "unitName"

\* C19 witness: a custom row with quantity 5, a price and no unitName got the
\* unitName error and no line item.
C19_Witness ==
    /\ outcome # Null
    /\ row.type = "custom"
    /\ row.quantity = "5"
    /\ row.unitName = ""
    /\ row.unitPriceAmount = "10"
    /\ outcome.items = <<>>
    /\ Len(outcome.errors) = 1
    /\ outcome.errors[1].field = "unitName"

\* C20: a cell "6,9" is read as 6.9: a custom row with unitPriceAmount "6,9",
\* no articleId, a quantity and a unit gives a line item priced at 6.90 and
\* no error.
C20_DecimalComma ==
    (/\ outcome # Null
     /\ toLowerTrim(row.type) = "custom"
     /\ Trim(row.articleId) = ""
     /\ row.unitPriceAmount = "6,9"
     /\ \E q \in numOrNull(row.quantity) : q > 0
     /\ Trim(row.unitName) # "") =>
        /\ numOrNull("6,9") = {690}
        /\ outcome.errors = <<>>
        /\ Len(outcome.items) = 1
        /\ IF taxType = "gross"
           THEN outcome.items[1].unitPrice.grossAmount = {690}
           ELSE outcome.items[1].unitPrice.netAmount = {690}

\* The rows read so far that are not blank and were classified as type t.
RowsOfType(t) == {k \in 1..Len(rowLog) : ~rowLog[k].blank /\ rowLog[k].type = t}

\* C21: byType[t] is the number of non-blank rows classified as t, whether
\* or not the row had a field error afterwards; rows without a type are not
\* tallied; the returned summary carries this tally.
C21_ByTypeCountsClassifiedRows ==
    /\ "" \notin DOMAIN byType
    /\ \A t \in DOMAIN byType : byType[t] = Cardinality(RowsOfType(t))
    /\ \A k \in 1..Len(rowLog) :
          (~rowLog[k].blank /\ rowLog[k].type # "") => rowLog[k].type \in DOMAIN byType
    /\ (pc = "done" /\ sheets = AllSheets) => result.summary.byType = byType

\* C21 witness: two custom rows, the first with a field error, the second a
\* line item, and byType.custom is 2.
C21_Witness ==
    /\ pc = "done"
    /\ Len(rowLog) = 2
    /\ rowLog[1].type = "custom" /\ rowLog[1].problem
    /\ rowLog[2].type = "custom" /\ ~rowLog[2].problem
    /\ result.summary.byType = [custom |-> 2]

\* C30: every payload the builder returns has at least one line item; a pass
\* over the rows that pushes no line item adds the error `Keine Positionen
\* gefunden.` and returns no payload.
C30_PayloadHasLineItems ==
    (pc = "done") =>
        /\ (result.payload # Null => Len(result.payload.lineItems) >= 1)
        /\ (sheets = AllSheets /\ lineItems = <<>>) =>
              /\ result.payload = Null
              /\ ~result.ok
              /\ \E k \in 1..Len(result.summary.errors) :
                    result.summary.errors[k] = NoLineItemsError

\* C30 witness: a workbook with valid metadata whose rows are all blank; the
\* only error of the result is the missing line items.
C30_Witness ==
    /\ pc = "done"
    /\ Len(rowLog) = 2
    /\ rowLog[1].blank /\ rowLog[2].blank
    /\ result.summary.errors = <<NoLineItemsError>>
    /\ result.payload = Null

\* C22: between any two HTTP requests that go out at least the minimum
\* interval passes: a request goes out only when the last one went out
\* MinInterval ticks ago or earlier.
C22_MinIntervalBetweenCalls ==
    [][\A c \in Callers :
          (callPc[c] # "http" /\ callPc'[c] = "http") => sincePrevSend >= MinInterval]_vars

\* The acquire() calls a step resolves.
Resolved == {c \in Callers : callPc[c] # "granted" /\ callPc'[c] = "granted"}

\* C25: the tokens of the bucket stay between 0 and the capacity; a step
\* resolves n acquire() calls only if the bucket has n whole tokens after its
\* refill, and leaves exactly n tokens fewer; the acquire() calls granted never
\* exceed the initial capacity plus the refill (the budget, which pays one
\* token per grant, never goes below zero).
C25_TokenAccounting ==
    /\ [](tokens >= 0 /\ tokens <= capacity * PerSec /\ budget >= 0)
    /\ [][LET had == Refill(tokens, sinceRefill)
              n == Cardinality(Resolved)
          IN  /\ had >= n * PerSec
              /\ (n > 0 \/ tokens' # tokens) => tokens' = had - n * PerSec]_vars

\* C25 witness: a drain has resolved a waiting acquire() with a refilled token
\* and left the bucket with a fraction of a token and a waiter.
C25_Witness ==
    /\ lastGranted # <<>>
    /\ tokens > 0 /\ tokens < PerSec
    /\ queue # <<>>

\* C26: whenever the queue is not empty a timer of the bucket is pending, and
\* every acquire() that waits is resolved in the end.
C26_EveryAcquireResolves ==
    /\ [](queue # <<>> => timer # "none")
    /\ \A c \in Callers : (callPc[c] = "acquiring") ~> (callPc[c] = "granted")

\* C26 witness: caller a, which was in the queue, has been resolved by a drain
\* that left caller b waiting with the timer set.
C26_Witness ==
    /\ lastGranted = <<"a">>
    /\ queue = <<"b">>
    /\ timer = "armed"
    /\ callPc["a"] = "granted"

\* C27: every step resolves the acquire() calls at the head of the queue, in
\* the order of the queue: the callers resolved followed by the callers left
\* are the queue as it was, with the caller of the step at its end.
C27_GrantsAreFifo ==
    [][(queue' # queue \/ Resolved # {}) =>
          \E pushed \in {<<>>} \cup {<<c>> : c \in Callers} :
             /\ (pushed # <<>> => callPc[pushed[1]] = "idle")
             /\ lastGranted' \o queue' = queue \o pushed
             /\ Resolved = SeqRange(lastGranted')]_vars

\* C27 witness: one drain has resolved both waiting calls, b before a.
C27_Witness ==
    /\ lastGranted = <<"b", "a">>
    /\ callPc["a"] = "granted" /\ callPc["b"] = "granted"
    /\ tokens < PerSec

\* The HTTP attempts caller c has made in its current call of lexwareRequest.
Attempts(c) == Len(callLog[c]) + (IF callPc[c] = "http" THEN 1 ELSE 0)

\* C28: a call of lexwareRequest makes at most maxRetries + 1 HTTP attempts,
\* each after an acquire() of its own has resolved; only a 429 is followed by
\* another attempt; the call returns the first response that is not a 429,
\* or the status 429 after maxRetries + 1 responses that were all 429.
C28_AtMostSixAttempts ==
    \A c \in Callers :
        /\ Attempts(c) <= maxRetries + 1
        /\ Attempts(c) <= callGrants[c]
        /\ callPc[c] \in {"http", "backoff", "returned"} => Attempts(c) = callGrants[c]
        /\ \A k \in 1..Len(callLog[c]) :
              callLog[c][k] # 429 => (k = Len(callLog[c]) /\ callPc[c] = "returned")
        /\ callPc[c] = "returned" =>
              /\ callLog[c] # <<>>
              /\ callRet[c] = callLog[c][Len(callLog[c])]
              /\ callRet[c] = 429 => Len(callLog[c]) = maxRetries + 1
        /\ callPc[c] # "returned" => callRet[c] = 0

\* C28 witness: caller a has given up with status 429 after six attempts that
\* were all answered 429, while caller b got an error status at its third.
C28_Witness ==
    /\ callPc["a"] = "returned"
    /\ callRet["a"] = 429
    /\ callLog["a"] = <<429, 429, 429, 429, 429, 429>>
    /\ callPc["b"] = "returned"
    /\ callLog["b"] = <<429, 429, 500>>

\* The requests that created a promise.
Owners == {r \in FlightRequests : promise[r] # "none"}

\* C23: a request that finds an entry for its triple starts no build and no
\* creation call of its own and is answered with the result of the promise
\* stored; the entry of a promise stays in the map until a timer deletes it,
\* so no two requests with one triple create a promise while the entry of the
\* first is there; a promise makes at most one creation call.
C23_OneBuildPerTriple ==
    /\ \A r \in FlightRequests :
          /\ found[r] # 0 =>
                /\ promise[r] = "none"
                /\ creationCalls[r] = 0
                /\ awaited[r] = found[r]
                /\ requestKey[found[r]] = requestKey[r]
          /\ handlerPc[r] = "done" => replied[r] = settledAs[awaited[r]] /\ replied[r] # ""
          /\ creationCalls[r] <= 1
    /\ \A o \in Owners \ removed :
          /\ requestKey[o] \in DOMAIN inFlight
          /\ inFlight[requestKey[o]] = o
    /\ \A o1, o2 \in Owners \ removed : requestKey[o1] = requestKey[o2] => o1 = o2
    /\ \A o \in removed : promise[o] = "fulfilled"

\* C23 witness: request 1 created the offer; request 2 arrived with the same
\* triple while it ran and request 3 after it had finished; both were
\* answered with the result of request 1 and started nothing.
C23_Witness ==
    /\ replied = [r \in FlightRequests |-> "SUCCESS"]
    /\ found = (1 :> 0) @@ (2 :> 1) @@ (3 :> 1)
    /\ promise = (1 :> "fulfilled") @@ (2 :> "none") @@ (3 :> "none")
    /\ creationCalls = (1 :> 1) @@ (2 :> 0) @@ (3 :> 0)
    /\ requestKey[1] \in DOMAIN inFlight

\* C24: every entry of the inFlight map is removed in the end, whatever
\* became of its promise.
C24_EveryEntryIsRemoved ==
    \A t \in FlightTriples :
        (hashRequest(t) \in DOMAIN inFlight) ~> (hashRequest(t) \notin DOMAIN inFlight)

\* C29: every cache entry holds data the remote API answered with a 2xx for
\* its id; a call that finds an entry younger than the TTL returns its data and
\* sends no remote GET, every other call with an id sends one; a response that
\* is not a 2xx returns null and leaves the cache as it was.
C29_CacheHolds2xxData ==
    /\ [](/\ \A id \in DOMAIN articleCache : <<id, articleCache[id].data>> \in served
          /\ \A l \in Lookups :
                lookPc[l] # "idle" =>
                    /\ lookRemote[l] <=> (lookId[l] # "" /\ lookFresh[l] = "")
                    /\ (lookId[l] # "" /\ lookFresh[l] # "") =>
                           (lookPc[l] = "done" /\ lookResult[l] = lookFresh[l])
                    /\ lookId[l] = "" => (lookPc[l] = "done" /\ lookResult[l] = "null")
                    /\ (lookPc[l] = "done" /\ lookRemote[l]) =>
                           (lookResult[l] = "null" <=> ~Is2xx(lookStatus[l])))
    /\ [][\A l \in Lookups :
            (lookPc[l] = "waiting" /\ lookPc'[l] = "done" /\ ~Is2xx(lookStatus'[l])) =>
                articleCache' = articleCache]_vars

\* C29 witness: call 2 was served from the cache; later, with the entry older
\* than the TTL, call 1 sent a GET that was answered 500: it returned null and
\* the old entry is still there.
C29_Witness ==
    /\ lookPc = [l \in Lookups |-> "done"]
    /\ lookId = [l \in Lookups |-> "a1"]
    /\ lookRemote[2] = FALSE /\ lookResult[2] = "v1"
    /\ lookRemote[1] /\ lookStatus[1] = 500 /\ lookResult[1] = "null"
    /\ "a1" \in DOMAIN articleCache
    /\ articleCache["a1"] = [age |-> TtlTicks, data |-> "v1"]

====
